---------------------------- MODULE Spec2Model ----------------------------
(***************************************************************************)
(* Model of the Monte Carlo core of fermi-estimator                        *)
(* (src/lib/monte-carlo.ts): the distribution samplers, the statistics     *)
(* aggregator, the graph evaluator runGraphSimulation and the legacy       *)
(* runSimulation; and of the graph store (src/lib/graph-store.ts).         *)
(*                                                                         *)
(* Numbers.  A JavaScript number is modelled as a record [n, d]:           *)
(*   d > 0          the rational n/d in lowest terms (exact arithmetic;    *)
(*                  overflow is not modelled, and rounding is modelled for *)
(*                  the running sums of calculateStats only, see           *)
(*                  FloatRound),                                           *)
(*   d = 0, n = 1   +Infinity,   d = 0, n = -1   -Infinity,                *)
(*   d = 0, n = 0   NaN,                                                   *)
(*   d < 0          the irrational square root of n/(-d), produced only by *)
(*                  MathSqrt and never fed back into arithmetic.           *)
(* The special values follow IEEE 754 as JavaScript exposes it (signed     *)
(* zero is not distinguished).                                             *)
(***************************************************************************)
EXTENDS Integers, Sequences, FiniteSets, TLC

(***************************************************************************)
(* Bounds of the model.                                                    *)
(***************************************************************************)
TapeLen == 3          \* period of the sequence of Math.random() outcomes
IterationTapeLen == 2 \* the same, for one iteration of a simulation run
MaxIterations == 2    \* largest iteration count a run is started with
MaxLen == 3           \* longest enumerated sample list
MaxFormulaLen == 2    \* longest enumerated formula, in tokens
MaxUuids == 3         \* number of ids uuidv4() issues to the graph store
Precision == 10       \* bits of a significand, for the 53 of a double
MaxPasses == 5        \* passes of the level loop of layoutGraph that are followed

(***************************************************************************)
(* Program constants.                                                      *)
(***************************************************************************)
MaxAttempts == 100    \* sampleNormal: attempts < 100
VersionCap == 50      \* saveVersion: [version, ...versions].slice(0, 50)

-----------------------------------------------------------------------------
(***************************************************************************)
(* JavaScript numbers                                                      *)
(***************************************************************************)
Abs(i) == IF i < 0 THEN -i ELSE i

RECURSIVE GCD(_, _)
GCD(a, b) == IF b = 0 THEN a ELSE GCD(b, a % b)
LCM(a, b) == (a \div GCD(a, b)) * b

\* The number n/d (d # 0) in lowest terms with a positive denominator.
Rat(n, d) ==
  LET s == IF d < 0 THEN -1 ELSE 1
      g == GCD(Abs(n), Abs(d))
  IN  [n |-> (s * n) \div g, d |-> (s * d) \div g]

Int2Num(i) == [n |-> i, d |-> 1]
Zero == Int2Num(0)
One == Int2Num(1)
NaN == [n |-> 0, d |-> 0]
PosInf == [n |-> 1, d |-> 0]
NegInf == [n |-> -1, d |-> 0]

IsNaN(x) == x.d = 0 /\ x.n = 0
IsInf(x) == x.d = 0 /\ x.n # 0
IsSurd(x) == x.d < 0
\* isFinite(x)
IsFinite(x) == x.d # 0
Sgn(x) == IF x.n > 0 THEN 1 ELSE IF x.n < 0 THEN -1 ELSE 0
InfOfSign(s) == IF s < 0 THEN NegInf ELSE PosInf

Neg(x) == [n |-> -x.n, d |-> x.d]

\* x + y
Add(x, y) ==
  IF IsNaN(x) \/ IsNaN(y) THEN NaN
  ELSE IF IsInf(x) /\ IsInf(y) THEN (IF x.n = y.n THEN x ELSE NaN)
  ELSE IF IsInf(x) THEN x
  ELSE IF IsInf(y) THEN y
  ELSE LET l == LCM(x.d, y.d)
       IN  Rat(x.n * (l \div x.d) + y.n * (l \div y.d), l)

\* x - y
Sub(x, y) == Add(x, Neg(y))

\* x * y
Mul(x, y) ==
  IF IsNaN(x) \/ IsNaN(y) THEN NaN
  ELSE IF IsInf(x) \/ IsInf(y)
       THEN (IF Sgn(x) = 0 \/ Sgn(y) = 0 THEN NaN ELSE InfOfSign(Sgn(x) * Sgn(y)))
  ELSE LET g1 == GCD(Abs(x.n), y.d)
           g2 == GCD(Abs(y.n), x.d)
       IN  Rat((x.n \div g1) * (y.n \div g2), (x.d \div g2) * (y.d \div g1))

\* x / y
Div(x, y) ==
  IF IsNaN(x) \/ IsNaN(y) THEN NaN
  ELSE IF IsInf(x) THEN (IF IsInf(y) THEN NaN
                         ELSE InfOfSign(Sgn(x) * (IF Sgn(y) < 0 THEN -1 ELSE 1)))
  ELSE IF IsInf(y) THEN Zero
  ELSE IF y.n = 0 THEN (IF x.n = 0 THEN NaN ELSE InfOfSign(Sgn(x)))
  ELSE Mul(x, [n |-> Sgn(y) * y.d, d |-> Abs(y.n)])

\* x < y (false whenever an operand is NaN)
Lt(x, y) ==
  IF IsNaN(x) \/ IsNaN(y) THEN FALSE
  ELSE IF IsInf(x) THEN x.n < 0 /\ y # NegInf
  ELSE IF IsInf(y) THEN y.n > 0
  ELSE LET l == LCM(x.d, y.d)
       IN  x.n * (l \div x.d) < y.n * (l \div y.d)

Gt(x, y) == Lt(y, x)
\* x === y
StrictEq(x, y) == ~IsNaN(x) /\ ~IsNaN(y) /\ x = y
Le(x, y) == Lt(x, y) \/ StrictEq(x, y)
Ge(x, y) == Le(y, x)

\* Math.max(x, y) and Math.min(x, y)
MathMax(x, y) == IF IsNaN(x) \/ IsNaN(y) THEN NaN ELSE IF Lt(x, y) THEN y ELSE x
MathMin(x, y) == IF IsNaN(x) \/ IsNaN(y) THEN NaN ELSE IF Lt(y, x) THEN y ELSE x

\* Math.abs, Math.floor, Math.ceil, Math.round
MathAbs(x) == [n |-> Abs(x.n), d |-> x.d]
MathFloor(x) == IF x.d = 0 THEN x ELSE Int2Num(x.n \div x.d)
MathCeil(x) == IF x.d = 0 THEN x ELSE Int2Num(-((-x.n) \div x.d))
MathRound(x) == IF x.d = 0 THEN x ELSE Int2Num((2 * x.n + x.d) \div (2 * x.d))

\* The rounding of a result to a double, the significand scaled down to
\* Precision bits: every integer up to 2^Precision is a double, between
\* 2^Precision and 2^(Precision + 1) every second one, and so on.  A number
\* of smaller magnitude is kept as it is.
\* The distance between the doubles around x, s being a power of 2
RECURSIVE Spacing(_, _)
Spacing(x, s) ==
  IF Lt(MathAbs(x), Int2Num(s * 2^Precision)) THEN s ELSE Spacing(x, 2 * s)

\* The integer nearest to n/d, d > 0, the even one of two equally near
NearestEven(n, d) ==
  IF 2 * (n % d) < d THEN n \div d
  ELSE IF 2 * (n % d) > d THEN (n \div d) + 1
  ELSE IF (n \div d) % 2 = 0 THEN n \div d ELSE (n \div d) + 1

RoundTo(x, s) == IF s = 1 THEN x ELSE Int2Num(s * NearestEven(x.n, x.d * s))

FloatRound(x) == IF x.d <= 0 THEN x ELSE RoundTo(x, Spacing(x, 1))

\* The largest r in lo..hi with r * r <= i, by bisection
RECURSIVE RootBetween(_, _, _)
RootBetween(i, lo, hi) ==
  IF lo >= hi THEN lo
  ELSE LET mid == (lo + hi + 1) \div 2
       IN  IF mid * mid <= i THEN RootBetween(i, mid, hi)
           ELSE RootBetween(i, lo, mid - 1)

\* (roots above 46340 have squares beyond 32-bit integers)
ISqrt(i) == RootBetween(i, 0, IF i < 46340 THEN i ELSE 46340)
IsSquare(i) == ISqrt(i) * ISqrt(i) = i

\* Math.sqrt(x): exact when x is the square of a rational, else the surd
\* [n, -d] standing for the irrational root of n/d.
MathSqrt(x) ==
  IF IsNaN(x) \/ x.n < 0 THEN NaN
  ELSE IF IsInf(x) THEN PosInf
  ELSE IF IsSquare(x.n) /\ IsSquare(x.d) THEN [n |-> ISqrt(x.n), d |-> ISqrt(x.d)]
  ELSE [n |-> x.n, d |-> -x.d]

\* The square of a value MathSqrt returned.
SquareOf(x) == IF IsSurd(x) THEN [n |-> x.n, d |-> -x.d] ELSE Mul(x, x)

(***************************************************************************)
(* Math.log and Math.exp.  TLA+ has no reals: the two are tabulated at the *)
(* powers of ten, with ln 10 rounded to 23/10, and interpolated linearly   *)
(* inside each decade, so that they stay monotone, mutually inverse and     *)
(* exact on the special values (log 0 = -Infinity, log of a negative       *)
(* number = NaN, exp -Infinity = 0, log 1 = 0).                            *)
(***************************************************************************)
Ln10 == Rat(23, 10)

RECURSIVE Pow10(_)
Pow10(k) == IF k = 0 THEN One
            ELSE IF k > 0 THEN Mul(Int2Num(10), Pow10(k - 1))
            ELSE Div(Pow10(k + 1), Int2Num(10))

\* The k with 10^k <= x < 10^(k+1), for finite x > 0.
RECURSIVE Decade(_, _)
Decade(x, k) ==
  IF Lt(x, Pow10(k)) THEN Decade(x, k - 1)
  ELSE IF Ge(x, Pow10(k + 1)) THEN Decade(x, k + 1)
  ELSE k

\* ln x for x in the decade k: ln 10 * (k + (x / 10^k - 1) / 9)
LogInDecade(x, k) ==
  Mul(Ln10, Add(Int2Num(k), Div(Sub(Div(x, Pow10(k)), One), Int2Num(9))))

MathLog(x) ==
  IF IsNaN(x) \/ x.n < 0 THEN NaN
  ELSE IF x = PosInf THEN PosInf
  ELSE IF x.n = 0 THEN NegInf
  ELSE LogInDecade(x, Decade(x, 0))

\* 10^t, interpolated inside the decade floor(t)
Exp10(t, k) == Mul(Pow10(k), Add(One, Mul(Int2Num(9), Sub(t, Int2Num(k)))))
Exp10Of(t) == Exp10(t, t.n \div t.d)

MathExp(y) ==
  IF IsNaN(y) THEN NaN
  ELSE IF y = PosInf THEN PosInf
  ELSE IF y = NegInf THEN Zero
  ELSE Exp10Of(Div(y, Ln10))

-----------------------------------------------------------------------------
(***************************************************************************)
(* The uniform random source.  Math.random() returns the next element of a *)
(* periodic sequence (the tape) of outcomes in [0, 1); a random state is   *)
(* [tape, pos], pos counting the calls made so far.  The outcomes are 0,   *)
(* 1/10 and 1/2.  The Box-Muller factors of an outcome, sqrt(-2 ln u) and  *)
(* cos(2 pi u), are tabulated to one decimal.                              *)
(***************************************************************************)
Draws == {Zero, Rat(1, 10), Rat(1, 2)}
Tapes == [1..TapeLen -> Draws]
IterationTapes == [1..IterationTapeLen -> Draws]

\* Math.random(): the outcome, and the random state after the call
MathRandom(r) == [v |-> r.tape[(r.pos % Len(r.tape)) + 1],
                  r |-> [r EXCEPT !.pos = r.pos + 1]]

\* Math.sqrt(-2.0 * Math.log(u))
SqrtNeg2Log(u) ==
  CASE u = Zero -> PosInf            \* log 0 = -Infinity
    [] u = Rat(1, 10) -> Rat(21, 10)  \* 2.146
    [] u = Rat(1, 2) -> Rat(6, 5)     \* 1.177

\* Math.cos(2.0 * Math.PI * u)
Cos2Pi(u) ==
  CASE u = Zero -> One
    [] u = Rat(1, 10) -> Rat(4, 5)    \* 0.809
    [] u = Rat(1, 2) -> Neg(One)

\* randomNormal(mean, stdDev): Box-Muller on the outcomes u1 and u2 of two
\* calls of Math.random()
BoxMuller(mean, stdDev, u1, u2) ==
  Add(Mul(Mul(SqrtNeg2Log(u1), Cos2Pi(u2)), stdDev), mean)

randomNormal(mean, stdDev, r) ==
  [v |-> BoxMuller(mean, stdDev, MathRandom(r).v, MathRandom(MathRandom(r).r).v),
   r |-> [r EXCEPT !.pos = r.pos + 2]]

\* sampleUniform(min, max)
sampleUniform(min, max, r) ==
  [v |-> Add(min, Mul(MathRandom(r).v, Sub(max, min))), r |-> MathRandom(r).r,
   attempts |-> 0]

\* The rejection test of sampleNormal's do-while loop
Rejected(value, min, max, attempts) ==
  (Lt(value, min) \/ Gt(value, max)) /\ attempts < MaxAttempts

\* The do-while loop of sampleNormal.  Each pass makes two calls of
\* Math.random(), so the k-th pass draws from the random state r advanced by
\* 2 * (k - 1) calls.
NormalPass(mean, stdDev, r, k) ==
  randomNormal(mean, stdDev, [r EXCEPT !.pos = r.pos + 2 * (k - 1)])

\* The first pass among lo..hi whose draw ends the loop, 0 if none does
RECURSIVE FirstPassIn(_, _, _, _, _, _, _)
FirstPassIn(min, max, mean, stdDev, r, lo, hi) ==
  IF lo = hi
  THEN (IF Rejected(NormalPass(mean, stdDev, r, lo).v, min, max, lo) THEN 0 ELSE lo)
  ELSE LET early == FirstPassIn(min, max, mean, stdDev, r, lo, (lo + hi) \div 2)
       IN  IF early # 0 THEN early
           ELSE FirstPassIn(min, max, mean, stdDev, r, ((lo + hi) \div 2) + 1, hi)

\* The state the loop ends in: the draw of its last pass, and attempts
LoopEnd(draw, attempts) == [v |-> draw.v, r |-> draw.r, attempts |-> attempts]
LastPass(mean, stdDev, r, last) == LoopEnd(NormalPass(mean, stdDev, r, last), last)

sampleNormalLoop(min, max, mean, stdDev, r) ==
  LastPass(mean, stdDev, r, FirstPassIn(min, max, mean, stdDev, r, 1, MaxAttempts))

\* return Math.max(min, Math.min(max, value))
ClampInto(min, max, s) == [s EXCEPT !.v = MathMax(min, MathMin(max, s.v))]

\* sampleNormal(min, max)
sampleNormal(min, max, r) ==
  ClampInto(min, max,
    sampleNormalLoop(min, max, Div(Add(min, max), Int2Num(2)),
                     Div(Sub(max, min), Int2Num(4)), r))

Epsilon == Rat(1, 10000)

\* sampleLognormal(min, max), from logMin and logMax on
LognormalDraw(logMin, logMax, r) ==
  randomNormal(Div(Add(logMin, logMax), Int2Num(2)),
               Div(Sub(logMax, logMin), Int2Num(4)), r)
LognormalValue(draw) == [v |-> MathExp(draw.v), r |-> draw.r, attempts |-> 1]

\* sampleLognormal(min, max)
sampleLognormal(min, max, r) ==
  ClampInto(min, max,
    LognormalValue(LognormalDraw(MathLog(MathMax(min, Epsilon)),
                                 MathLog(MathMax(max, Epsilon)), r)))

\* sampleAssumption(assumption)
sampleAssumption(assumption, r) ==
  CASE assumption.distribution = "uniform" ->
         sampleUniform(assumption.min, assumption.max, r)
    [] assumption.distribution = "normal" ->
         sampleNormal(assumption.min, assumption.max, r)
    [] assumption.distribution = "lognormal" ->
         sampleLognormal(assumption.min, assumption.max, r)
    [] OTHER -> sampleUniform(assumption.min, assumption.max, r)

-----------------------------------------------------------------------------
(***************************************************************************)
(* The scalar function library                                             *)
(***************************************************************************)
\* applyComparison(a, b, comparison)
applyComparison(a, b, comparison) ==
  CASE comparison = "gt" -> Gt(a, b)
    [] comparison = "gte" -> Ge(a, b)
    [] comparison = "lt" -> Lt(a, b)
    [] comparison = "lte" -> Le(a, b)
    [] comparison = "eq" -> StrictEq(a, b)
    [] comparison = "neq" -> ~StrictEq(a, b)
    [] OTHER -> FALSE

\* A function node's parameter: undefined, or a number.  (A string
\* parameter, the expression of a `custom` function, is not modelled.)
NoParameter == [kind |-> "undefined", num |-> Zero]
NumParameter(x) == [kind |-> "number", num |-> x]

\* Math.pow(x, k) for a natural number k
RECURSIVE PowNat(_, _)
PowNat(x, k) == IF k = 0 THEN One ELSE Mul(x, PowNat(x, k - 1))

\* inputB ?? input, where inputB is a number or undefined
Coalesce(inputB, input) == IF inputB.defined THEN inputB.num ELSE input
Defined(x) == [defined |-> TRUE, num |-> x]
Undefined == [defined |-> FALSE, num |-> Zero]

\* applyFunction(func, input, inputB, parameter), for the functions whose
\* value is a rational or a special value (sin, cos, tan, log10 and log2
\* are not modelled); inputB is Defined(x) or Undefined.
applyFunction(func, input, inputB, parameter) ==
  CASE func = "sqrt" -> MathSqrt(input)
    [] func = "square" -> Mul(input, input)
    [] func = "pow" -> PowNat(input, IF parameter.kind = "number"
                                     THEN parameter.num.n ELSE 2)
    [] func = "exp" -> MathExp(input)
    [] func = "log" -> MathLog(input)
    [] func = "abs" -> MathAbs(input)
    [] func = "ceil" -> MathCeil(input)
    [] func = "floor" -> MathFloor(input)
    [] func = "round" -> MathRound(input)
    [] func = "min" -> MathMin(input, Coalesce(inputB, input))
    [] func = "max" -> MathMax(input, Coalesce(inputB, input))
    [] func = "custom" -> input
    [] OTHER -> input

-----------------------------------------------------------------------------
(***************************************************************************)
(* Graphs.  A node is a record of its id, its type and the attributes of   *)
(* its data; an edge is [source, target, targetHandle], the handle "" when *)
(* the edge has none.  graph.nodes and graph.edges are sequences.          *)
(***************************************************************************)
NoHandle == ""

BlankNode(id, type) ==
  [id |-> id, type |-> type, min |-> Zero, max |-> Zero, hasMin |-> FALSE,
   hasMax |-> FALSE, distribution |-> "", value |-> Zero, operation |-> "",
   function |-> "", parameter |-> NoParameter, comparison |-> ""]

AssumptionNode(id, min, max, distribution) ==
  [BlankNode(id, "assumption") EXCEPT !.min = min, !.max = max,
                                      !.distribution = distribution]
ConstantNode(id, value) == [BlankNode(id, "constant") EXCEPT !.value = value]
OperationNode(id, operation) ==
  [BlankNode(id, "operation") EXCEPT !.operation = operation]
FunctionNode(id, func, parameter) ==
  [BlankNode(id, "function") EXCEPT !.function = func, !.parameter = parameter]
ConditionalNode(id, comparison) ==
  [BlankNode(id, "conditional") EXCEPT !.comparison = comparison]
\* a clamp whose data.min / data.max are defined as flagged
ClampNode(id, hasMin, min, hasMax, max) ==
  [BlankNode(id, "clamp") EXCEPT !.hasMin = hasMin, !.min = min,
                                 !.hasMax = hasMax, !.max = max]
ResultNode(id) == BlankNode(id, "result")

Edge(source, target, handle) ==
  [source |-> source, target |-> target, targetHandle |-> handle]

NodeIds(g) == {g.nodes[k].id : k \in 1..Len(g.nodes)}

\* graph.nodes.find((n) => n.id === nodeId): the first match
HasNode(g, nodeId) == \E k \in 1..Len(g.nodes) : g.nodes[k].id = nodeId
FindNode(g, nodeId) ==
  LET first == CHOOSE k \in 1..Len(g.nodes) :
                 /\ g.nodes[k].id = nodeId
                 /\ \A j \in 1..(k - 1) : g.nodes[j].id # nodeId
  IN  g.nodes[first]

\* graph.nodes.find((n) => n.type === 'result')
HasResultNode(g) == \E k \in 1..Len(g.nodes) : g.nodes[k].type = "result"
FindResultNode(g) ==
  LET first == CHOOSE k \in 1..Len(g.nodes) :
                 /\ g.nodes[k].type = "result"
                 /\ \A j \in 1..(k - 1) : g.nodes[j].type # "result"
  IN  g.nodes[first]

\* incomingEdges.get(nodeId) || []: the edges into nodeId in array order
RECURSIVE IncomingFrom(_, _, _)
IncomingFrom(edges, nodeId, k) ==
  IF k > Len(edges) THEN <<>>
  ELSE (IF edges[k].target = nodeId
        THEN <<[sourceId |-> edges[k].source, handle |-> edges[k].targetHandle]>>
        ELSE <<>>) \o IncomingFrom(edges, nodeId, k + 1)

IncomingEdges(g, nodeId) == IncomingFrom(g.edges, nodeId, 1)

-----------------------------------------------------------------------------
(***************************************************************************)
(* computeNodeValue.  An evaluation state e holds the iteration cache      *)
(* (vals, a function on the ids computed so far), the random state r, the  *)
(* number of times each node's value was computed (computed, kept for the  *)
(* properties) and the value v the last call returned.                     *)
(***************************************************************************)
\* iterationValues.has(nodeId)
IsCached(nodeId, vals) == nodeId \in DOMAIN vals

\* iterationValues.set(nodeId, value)
CacheSet(vals, nodeId, value) ==
  [x \in (DOMAIN vals) \cup {nodeId} |-> IF x = nodeId THEN value ELSE vals[x]]

EmptyMap == [x \in {} |-> Zero]

\* The switch with the cases of multiply and add exchanged
ApplyOperationExchanged(operation, inputA, inputB) ==
  CASE operation = "multiply" -> Add(inputA, inputB)
    [] operation = "divide" -> IF inputB # Zero THEN Div(inputA, inputB) ELSE Zero
    [] operation = "add" -> Mul(inputA, inputB)
    [] operation = "subtract" -> Sub(inputA, inputB)
    [] OTHER -> Zero

\* The switch with a divide that lacks the test of inputB
ApplyOperationUnguarded(operation, inputA, inputB) ==
  CASE operation = "multiply" -> Mul(inputA, inputB)
    [] operation = "divide" -> Div(inputA, inputB)
    [] operation = "add" -> Add(inputA, inputB)
    [] operation = "subtract" -> Sub(inputA, inputB)
    [] OTHER -> Zero

\* The switch over the four binary operations
ApplyOperation(operation, inputA, inputB) ==
  CASE operation = "multiply" -> Mul(inputA, inputB)
    [] operation = "divide" -> IF inputB # Zero THEN Div(inputA, inputB) ELSE Zero
    [] operation = "add" -> Add(inputA, inputB)
    [] operation = "subtract" -> Sub(inputA, inputB)
    [] OTHER -> Zero

\* FeedsInputA without the test of the edge's position: every untagged edge
\* supplies inputA
FeedsInputAUntagged(edge, k) == edge.handle = "a" \/ edge.handle = NoHandle

\* Which operand an incoming edge of an operation node supplies
FeedsInputA(edge, k) == edge.handle = "a" \/ (edge.handle = NoHandle /\ k = 1)

\* Which operand an incoming edge of a function node supplies
FeedsFunctionInputA(edge, k) ==
  edge.handle = "a" \/ edge.handle = "input" \/ (edge.handle = NoHandle /\ k = 1)

\* The second input computeNodeValue hands to applyFunction: inputB is a
\* number, initialised to 0, whether or not an edge supplied it.
FunctionInputB(inputB) == Defined(inputB)

RECURSIVE computeNodeValue(_, _, _)
RECURSIVE OperationInputs(_, _, _, _, _, _)
RECURSIVE FunctionInputs(_, _, _, _, _, _)
RECURSIVE ConditionalInputs(_, _, _, _, _)
RECURSIVE ReduceIncoming(_, _, _, _, _, _)

\* The body of each loop, e2 being the evaluation state after the recursive
\* call for the k-th edge and e2.v its inputValue
OperationInputStep(g, incoming, k, e2, inputA, inputB) ==
  IF FeedsInputA(incoming[k], k)
  THEN OperationInputs(g, incoming, k + 1, e2, e2.v, inputB)
  ELSE OperationInputs(g, incoming, k + 1, e2, inputA, e2.v)

FunctionInputStep(g, incoming, k, e2, inputA, inputB) ==
  IF FeedsFunctionInputA(incoming[k], k)
  THEN FunctionInputs(g, incoming, k + 1, e2, e2.v, inputB)
  ELSE FunctionInputs(g, incoming, k + 1, e2, inputA, e2.v)

\* ConditionalInputStep with a default case that takes an edge of no port
\* name as the a port
ConditionalInputStepDefaultA(g, incoming, k, e2, ports) ==
  ConditionalInputs(g, incoming, k + 1, e2,
    IF incoming[k].handle \in {"a", "b", "then", "else"}
    THEN [ports EXCEPT ![incoming[k].handle] = e2.v]
    ELSE [ports EXCEPT !["a"] = e2.v])

ConditionalInputStep(g, incoming, k, e2, ports) ==
  ConditionalInputs(g, incoming, k + 1, e2,
    IF incoming[k].handle \in {"a", "b", "then", "else"}
    THEN [ports EXCEPT ![incoming[k].handle] = e2.v] ELSE ports)

ReduceStep(g, incoming, k, e2, operation, acc) ==
  ReduceIncoming(g, incoming, k + 1, e2, operation,
    IF operation = "sum" THEN Add(acc, e2.v) ELSE Mul(acc, e2.v))

\* for (const edge of incoming) of an operation node, from the k-th edge on
OperationInputs(g, incoming, k, e, inputA, inputB) ==
  IF k > Len(incoming) THEN [e |-> e, inputA |-> inputA, inputB |-> inputB]
  ELSE OperationInputStep(g, incoming, k, computeNodeValue(g, incoming[k].sourceId, e),
         inputA, inputB)

\* for (const edge of incoming) of a function node
FunctionInputs(g, incoming, k, e, inputA, inputB) ==
  IF k > Len(incoming) THEN [e |-> e, inputA |-> inputA, inputB |-> inputB]
  ELSE FunctionInputStep(g, incoming, k, computeNodeValue(g, incoming[k].sourceId, e),
         inputA, inputB)

\* for (const edge of incoming) of a conditional node; ports maps
\* a, b, then, else to their values so far
ConditionalInputs(g, incoming, k, e, ports) ==
  IF k > Len(incoming) THEN [e |-> e, ports |-> ports]
  ELSE ConditionalInputStep(g, incoming, k,
         computeNodeValue(g, incoming[k].sourceId, e), ports)

\* incoming.reduce((acc, edge) => acc (+|*) computeNodeValue(...), acc)
ReduceIncoming(g, incoming, k, e, operation, acc) ==
  IF k > Len(incoming) THEN [e EXCEPT !.v = acc]
  ELSE ReduceStep(g, incoming, k, computeNodeValue(g, incoming[k].sourceId, e),
         operation, acc)

\* The branch of an assumption node
Sampled(e, s) == [e EXCEPT !.v = s.v, !.r = s.r]
AssumptionValue(g, node, e) ==
  Sampled(e, sampleAssumption([id |-> node.id, min |-> node.min, max |-> node.max,
                               distribution |-> node.distribution], e.r))

\* OperationSwitch with the product folded from 0 as the sum is
OperationSwitchZeroSeed(g, node, incoming, in) ==
  IF node.operation \in {"sum", "product"}
  THEN ReduceIncoming(g, incoming, 1, in.e, node.operation, Zero)
  ELSE [in.e EXCEPT !.v = ApplyOperation(node.operation, in.inputA, in.inputB)]

\* The branch of an operation node, once the loop over its incoming edges
\* has set inputA and inputB
OperationSwitch(g, node, incoming, in) ==
  IF node.operation \in {"sum", "product"}
  THEN ReduceIncoming(g, incoming, 1, in.e, node.operation,
                      IF node.operation = "sum" THEN Zero ELSE One)
  ELSE [in.e EXCEPT !.v = ApplyOperation(node.operation, in.inputA, in.inputB)]

OperationValue(g, node, e) ==
  OperationSwitch(g, node, IncomingEdges(g, node.id),
    OperationInputs(g, IncomingEdges(g, node.id), 1, e, Zero, Zero))

\* The branch of a function node
FunctionApplied(node, in) ==
  [in.e EXCEPT !.v = applyFunction(node.function, in.inputA,
                                   FunctionInputB(in.inputB), node.parameter)]

FunctionValue(g, node, e) ==
  FunctionApplied(node,
    FunctionInputs(g, IncomingEdges(g, node.id), 1, e, Zero, Zero))

\* The branch of a conditional node
ConditionalSelected(node, in) ==
  [in.e EXCEPT !.v =
     IF applyComparison(in.ports["a"], in.ports["b"], node.comparison)
     THEN in.ports["then"] ELSE in.ports["else"]]

ConditionalValue(g, node, e) ==
  ConditionalSelected(node,
    ConditionalInputs(g, IncomingEdges(g, node.id), 1, e,
                      [p \in {"a", "b", "then", "else"} |-> Zero]))

\* The branch of a clamp node
ClampLow(node, value) == IF node.hasMin THEN MathMax(value, node.min) ELSE value
ClampHigh(node, value) == IF node.hasMax THEN MathMin(value, node.max) ELSE value
Clamped(node, e2) == [e2 EXCEPT !.v = ClampHigh(node, ClampLow(node, e2.v))]

ClampValue(g, node, e) ==
  IF Len(IncomingEdges(g, node.id)) > 0
  THEN Clamped(node, computeNodeValue(g, IncomingEdges(g, node.id)[1].sourceId, e))
  ELSE [e EXCEPT !.v = Zero]

\* ResultValue passing the source of the last incoming edge through
ResultValueLast(g, node, e) ==
  IF Len(IncomingEdges(g, node.id)) > 0
  THEN computeNodeValue(g,
         IncomingEdges(g, node.id)[Len(IncomingEdges(g, node.id))].sourceId, e)
  ELSE [e EXCEPT !.v = Zero]

\* The branch of a result node
ResultValue(g, node, e) ==
  IF Len(IncomingEdges(g, node.id)) > 0
  THEN computeNodeValue(g, IncomingEdges(g, node.id)[1].sourceId, e)
  ELSE [e EXCEPT !.v = Zero]

\* The dispatch on node.type
NodeValue(g, node, e) ==
  CASE node.type = "assumption" -> AssumptionValue(g, node, e)
    [] node.type = "constant" -> [e EXCEPT !.v = node.value]
    [] node.type = "operation" -> OperationValue(g, node, e)
    [] node.type = "function" -> FunctionValue(g, node, e)
    [] node.type = "conditional" -> ConditionalValue(g, node, e)
    [] node.type = "clamp" -> ClampValue(g, node, e)
    [] node.type = "result" -> ResultValue(g, node, e)
    [] OTHER -> [e EXCEPT !.v = Zero]

\* iterationValues.set(nodeId, value); return value
Memoized(nodeId, done) ==
  [done EXCEPT !.vals = CacheSet(done.vals, nodeId, done.v),
               !.computed[nodeId] = @ + 1]

\* computeNodeValue caching the 0 of an id that no node has
computeNodeValueCachingUnknown(g, nodeId, e) ==
  IF IsCached(nodeId, e.vals) THEN [e EXCEPT !.v = e.vals[nodeId]]
  ELSE IF ~HasNode(g, nodeId)
       THEN [e EXCEPT !.v = Zero, !.vals = CacheSet(e.vals, nodeId, Zero)]
  ELSE Memoized(nodeId, NodeValue(g, FindNode(g, nodeId), e))

computeNodeValue(g, nodeId, e) ==
  IF IsCached(nodeId, e.vals) THEN [e EXCEPT !.v = e.vals[nodeId]]
  ELSE IF ~HasNode(g, nodeId) THEN [e EXCEPT !.v = Zero]
  ELSE Memoized(nodeId, NodeValue(g, FindNode(g, nodeId), e))

\* FollowedEdges with a result and a clamp node resolving every incoming
\* edge, as the other nodes with inputs do
FollowedEdgesAll(g, nodeId) ==
  IF ~HasNode(g, nodeId) THEN <<>>
  ELSE IF FindNode(g, nodeId).type
            \in {"operation", "function", "conditional", "clamp", "result"}
       THEN IncomingEdges(g, nodeId)
       ELSE <<>>

\* The incoming edges whose source computeNodeValue(nodeId) calls itself
\* for: all of them for an operation, function or conditional node, the
\* first for a clamp or result node, none for an assumption or constant
\* node and for an id without a node
FollowedEdges(g, nodeId) ==
  IF ~HasNode(g, nodeId) THEN <<>>
  ELSE IF FindNode(g, nodeId).type \in {"operation", "function", "conditional"}
       THEN IncomingEdges(g, nodeId)
       ELSE IF FindNode(g, nodeId).type \in {"clamp", "result"}
            THEN SubSeq(IncomingEdges(g, nodeId), 1,
                        IF Len(IncomingEdges(g, nodeId)) > 0 THEN 1 ELSE 0)
            ELSE <<>>

\* Whether computeNodeValue(nodeId), called while the calls for the nodes of
\* stack are open, comes to call itself for a node whose call is open.  That
\* node is not in the cache, which a call fills at its end only, so the
\* call is repeated with the same arguments and the recursion has no end.
RECURSIVE Reenters(_, _, _)
Reenters(g, nodeId, stack) ==
  IF nodeId \in stack THEN TRUE
  ELSE \E k \in 1..Len(FollowedEdges(g, nodeId)) :
         Reenters(g, FollowedEdges(g, nodeId)[k].sourceId, stack \cup {nodeId})

\* The evaluation state an iteration starts from: new Map(), and the
\* iteration's sequence of random outcomes
FreshIteration(g, tape) ==
  [vals |-> EmptyMap, r |-> [tape |-> tape, pos |-> 0],
   computed |-> [id \in NodeIds(g) |-> 0], v |-> Zero]

-----------------------------------------------------------------------------
(***************************************************************************)
(* The statistics aggregator                                               *)
(***************************************************************************)
\* [...samples].sort((a, b) => a - b), on finite numbers
RECURSIVE InsertSorted(_, _)
InsertSorted(x, sorted) ==
  IF sorted = <<>> THEN <<x>>
  ELSE IF Lt(x, Head(sorted)) THEN <<x>> \o sorted
  ELSE <<Head(sorted)>> \o InsertSorted(x, Tail(sorted))

RECURSIVE SortAscending(_)
SortAscending(samples) ==
  IF samples = <<>> THEN <<>>
  ELSE InsertSorted(samples[Len(samples)],
                    SortAscending(SubSeq(samples, 1, Len(samples) - 1)))

\* a + b of a running sum, rounded to a double
FloatAdd(a, b) == FloatRound(Add(a, b))

\* samples.reduce((a, b) => a + b, 0)
RECURSIVE SumOf(_)
SumOf(samples) ==
  IF samples = <<>> THEN Zero
  ELSE FloatAdd(SumOf(SubSeq(samples, 1, Len(samples) - 1)), samples[Len(samples)])

\* samples.reduce((sum, val) => sum + Math.pow(val - mean, 2), 0)
RECURSIVE SumSquaredDeviations(_, _)
SumSquaredDeviations(samples, mean) ==
  IF samples = <<>> THEN Zero
  ELSE FloatAdd(SumSquaredDeviations(SubSeq(samples, 1, Len(samples) - 1), mean),
                PowNat(Sub(samples[Len(samples)], mean), 2))

\* const mean = samples.reduce(...) / samples.length
MeanOf(samples) == Div(SumOf(samples), Int2Num(Len(samples)))

\* The sample variance: divisor samples.length - 1
VarianceOfSample(samples, mean) ==
  Div(SumSquaredDeviations(samples, mean), Int2Num(Len(samples) - 1))

\* const variance = samples.reduce(...) / samples.length
VarianceOf(samples, mean) ==
  Div(SumSquaredDeviations(samples, mean), Int2Num(Len(samples)))

\* The rank Math.ceil((p / 100) * sorted.length) - 1
PercentileIndexCeil(p, length) == ((p * length + 99) \div 100) - 1

\* Math.floor((p / 100) * sorted.length)
PercentileIndex(p, length) == (p * length) \div 100

\* sorted[Math.min(index, sorted.length - 1)] || 0, indices from 0: an
\* index outside the array reads undefined, and undefined, NaN and 0 all
\* give 0
ElementOrZero(sorted, at) ==
  IF at < 0 \/ at >= Len(sorted) THEN Zero
  ELSE IF IsNaN(sorted[at + 1]) THEN Zero
  ELSE sorted[at + 1]

getPercentile(sorted, p) ==
  ElementOrZero(sorted,
    IF PercentileIndex(p, Len(sorted)) < Len(sorted) - 1
    THEN PercentileIndex(p, Len(sorted)) ELSE Len(sorted) - 1)

Percentiles(sorted) ==
  [p5 |-> getPercentile(sorted, 5), p25 |-> getPercentile(sorted, 25),
   p50 |-> getPercentile(sorted, 50), p75 |-> getPercentile(sorted, 75),
   p95 |-> getPercentile(sorted, 95)]

ZeroPercentiles ==
  [p5 |-> Zero, p25 |-> Zero, p50 |-> Zero, p75 |-> Zero, p95 |-> Zero]

\* The all-zero result of calculateStats([]) and of a missing result node
ZeroResult ==
  [samples |-> <<>>, percentiles |-> ZeroPercentiles, mean |-> Zero,
   stdDev |-> Zero]

\* calculateStats(samples) past its guard
StatsWith(samples, sorted, mean) ==
  [samples |-> samples, percentiles |-> Percentiles(sorted), mean |-> mean,
   stdDev |-> MathSqrt(VarianceOf(samples, mean))]

\* StatsOf reading the percentiles from the samples in the order of arrival
StatsOfUnsorted(samples) == StatsWith(samples, samples, MeanOf(samples))

StatsOf(samples) == StatsWith(samples, SortAscending(samples), MeanOf(samples))

\* calculateStats without its guard for an empty list
calculateStatsUnguarded(samples) == StatsOf(samples)

\* calculateStats(samples)
calculateStats(samples) ==
  IF Len(samples) = 0 THEN ZeroResult ELSE StatsOf(samples)

-----------------------------------------------------------------------------
(***************************************************************************)
(* evaluateFormula.  A formula is a sequence of tokens separated by white  *)
(* space: number literals, names, the operators + - * / and parentheses.   *)
(* A name is a whole word, so the order in which the names are replaced    *)
(* (longest first) does not show.  es counts the letters e and E of a      *)
(* name: they are the only letters the sanitizing regular expression keeps.*)
(***************************************************************************)
NumToken(v) == [kind |-> "num", name |-> "", es |-> 0, v |-> v]
NameToken(name, es) == [kind |-> "name", name |-> name, es |-> es, v |-> Zero]
Punct(c) == [kind |-> c, name |-> "", es |-> 0, v |-> Zero]

\* `(${value})` once sanitized: the letters of NaN and Infinity are removed
ValueText(value) ==
  IF IsNaN(value) THEN <<Punct("("), Punct(")")>>
  ELSE IF value = PosInf THEN <<Punct("("), Punct(")")>>
  ELSE IF value = NegInf THEN <<Punct("("), Punct("-"), Punct(")")>>
  ELSE IF value.n < 0 THEN <<Punct("("), Punct("-"), NumToken(Neg(value)), Punct(")")>>
  ELSE <<Punct("("), NumToken(value), Punct(")")>>

\* expression.replace(regex, `(${value})`) for every name of assumptionValues,
\* then expression.replace(/[^0-9+\-*/().e\s]/gi, ''): a name that is not
\* bound keeps its letters e only
RECURSIVE Sanitized(_, _, _)
Sanitized(formula, assumptionValues, k) ==
  IF k > Len(formula) THEN <<>>
  ELSE (IF formula[k].kind # "name" THEN <<formula[k]>>
        ELSE IF formula[k].name \in DOMAIN assumptionValues
        THEN ValueText(assumptionValues[formula[k].name])
        ELSE IF formula[k].es > 0 THEN <<Punct("e")>>
        ELSE <<>>)
       \o Sanitized(formula, assumptionValues, k + 1)

\* new Function(`return ${sanitized}`)(): the JavaScript grammar of the
\* sanitized text.  A parse is [ok, v, pos]: pos is the next token.  The
\* identifier e is not defined, and a / where an operand is expected starts
\* a regular expression literal: both end in the catch or the typeof test.
Failed == [ok |-> FALSE, v |-> NaN, pos |-> 0]
Parsed(v, pos) == [ok |-> TRUE, v |-> v, pos |-> pos]
TokenIs(ts, pos, kinds) == pos <= Len(ts) /\ ts[pos].kind \in kinds

RECURSIVE AdditiveExpression(_, _)
RECURSIVE AdditiveRest(_, _)
RECURSIVE MultiplicativeRest(_, _)
RECURSIVE UnaryExpression(_, _)

BinaryResult(op, left, right) ==
  IF ~right.ok THEN Failed
  ELSE Parsed(CASE op = "+" -> Add(left.v, right.v)
                [] op = "-" -> Sub(left.v, right.v)
                [] op = "*" -> Mul(left.v, right.v)
                [] op = "/" -> Div(left.v, right.v), right.pos)

UnaryResult(op, operand) ==
  IF ~operand.ok THEN Failed
  ELSE Parsed(IF op = "-" THEN Neg(operand.v) ELSE operand.v, operand.pos)

Parenthesized(ts, inner) ==
  IF inner.ok /\ TokenIs(ts, inner.pos, {")"}) THEN Parsed(inner.v, inner.pos + 1)
  ELSE Failed

PrimaryExpression(ts, pos) ==
  IF TokenIs(ts, pos, {"num"}) THEN Parsed(ts[pos].v, pos + 1)
  ELSE IF TokenIs(ts, pos, {"("}) THEN Parenthesized(ts, AdditiveExpression(ts, pos + 1))
  ELSE Failed

UnaryExpression(ts, pos) ==
  IF TokenIs(ts, pos, {"+", "-"})
  THEN UnaryResult(ts[pos].kind, UnaryExpression(ts, pos + 1))
  ELSE PrimaryExpression(ts, pos)

MultiplicativeRest(ts, left) ==
  IF left.ok /\ TokenIs(ts, left.pos, {"*", "/"})
  THEN MultiplicativeRest(ts, BinaryResult(ts[left.pos].kind, left,
                                           UnaryExpression(ts, left.pos + 1)))
  ELSE left

MultiplicativeExpression(ts, pos) == MultiplicativeRest(ts, UnaryExpression(ts, pos))

AdditiveRest(ts, left) ==
  IF left.ok /\ TokenIs(ts, left.pos, {"+", "-"})
  THEN AdditiveRest(ts, BinaryResult(ts[left.pos].kind, left,
                                     MultiplicativeExpression(ts, left.pos + 1)))
  ELSE left

AdditiveExpression(ts, pos) == AdditiveRest(ts, MultiplicativeExpression(ts, pos))

\* FiniteOrNaN without the test of isFinite(result)
FiniteOrNaNUnchecked(ts, parse) ==
  IF parse.ok /\ parse.pos = Len(ts) + 1 THEN parse.v ELSE NaN

\* The try block: NaN unless the text is an expression with a finite value
FiniteOrNaN(ts, parse) ==
  IF parse.ok /\ parse.pos = Len(ts) + 1 /\ IsFinite(parse.v) THEN parse.v ELSE NaN

Evaluated(sanitized) == FiniteOrNaN(sanitized, AdditiveExpression(sanitized, 1))

\* evaluateFormula(formula, assumptionValues)
evaluateFormula(formula, assumptionValues) ==
  Evaluated(Sanitized(formula, assumptionValues, 1))

-----------------------------------------------------------------------------
(***************************************************************************)
(* runSimulation                                                           *)
(***************************************************************************)
\* for (const assumption of assumptions)
\*   values[assumption.name] = sampleAssumption(assumption)
WithValue(values, name, s) ==
  [values |-> [x \in DOMAIN values \cup {name} |->
                 IF x = name THEN s.v ELSE values[x]],
   r |-> s.r]

RECURSIVE SampleAll(_, _, _, _)
SampleNext(assumptions, k, sofar) == SampleAll(assumptions, k + 1, sofar.values, sofar.r)
SampleAll(assumptions, k, values, r) ==
  IF k > Len(assumptions) THEN [values |-> values, r |-> r]
  ELSE SampleNext(assumptions, k,
         WithValue(values, assumptions[k].name, sampleAssumption(assumptions[k], r)))

\* if (!isNaN(result) && isFinite(result)) samples.push(result)
PushResult(samples, result) ==
  IF ~IsNaN(result) /\ IsFinite(result) THEN Append(samples, result) ELSE samples

\* The statistics of runSimulation: no test of samples.length
SimulationStats(samples, sorted, mean) ==
  [samples |-> samples, percentiles |-> Percentiles(sorted), mean |-> mean,
   stdDev |-> MathSqrt(VarianceOf(samples, mean))]

SimulationResult(samples) ==
  SimulationStats(samples, SortAscending(samples), MeanOf(samples))

-----------------------------------------------------------------------------
(***************************************************************************)
(* runGraphSimulation                                                      *)
(***************************************************************************)
\* for (const node of graph.nodes) nodeSamples.set(node.id, [])
InitialNodeSamples(g) == [id \in NodeIds(g) |-> <<>>]

\* The store loop deciding once for the whole iteration: nothing is pushed
\* when some value of the iteration is not finite
StoreValuesPerIteration(samplesOf, vals) ==
  [id \in DOMAIN samplesOf |->
     IF id \in DOMAIN vals /\ \A x \in DOMAIN vals : IsFinite(vals[x])
     THEN Append(samplesOf[id], vals[id])
     ELSE samplesOf[id]]

\* The store loop keeping the latest finite value only
StoreValuesOverwriting(samplesOf, vals) ==
  [id \in DOMAIN samplesOf |->
     IF id \in DOMAIN vals /\ IsFinite(vals[id]) /\ ~IsNaN(vals[id])
     THEN <<vals[id]>>
     ELSE samplesOf[id]]

\* for (const [nodeId, value] of iterationValues): push the finite values
StoreValues(samplesOf, vals) ==
  [id \in DOMAIN samplesOf |->
     IF id \in DOMAIN vals /\ IsFinite(vals[id]) /\ ~IsNaN(vals[id])
     THEN Append(samplesOf[id], vals[id])
     ELSE samplesOf[id]]

\* The statistics loop without its test of samples.length
NodeStatisticsOfAll(samplesOf) ==
  [id \in DOMAIN samplesOf |->
     [nodeId |-> id, stats |-> calculateStats(samplesOf[id])]]

\* for (const [nodeId, samples] of nodeSamples) if (samples.length > 0) ...
NodeStatistics(samplesOf) ==
  [id \in {x \in DOMAIN samplesOf : Len(samplesOf[x]) > 0} |->
     [nodeId |-> id, stats |-> calculateStats(samplesOf[id])]]

\* finalResult: { ...calculateStats(resultSamples), samples: resultSamples }
WithSamples(stats, resultSamples) == [stats EXCEPT !.samples = resultSamples]
FinalResultOf(g, samplesOf) ==
  WithSamples(calculateStats(samplesOf[FindResultNode(g).id]),
              samplesOf[FindResultNode(g).id])

-----------------------------------------------------------------------------
(***************************************************************************)
(* The graphs a run is started on                                          *)
(***************************************************************************)
Operations == {"multiply", "divide", "add", "subtract", "sum", "product"}
BinaryOperations == {"multiply", "divide", "add", "subtract"}
Distributions == {"uniform", "normal", "lognormal"}
Functions == {"sqrt", "square", "pow", "exp", "log", "abs", "ceil", "floor",
              "round", "min", "max", "custom"}

\* values of constant nodes
ConstantValues == {Int2Num(-4), Zero, Int2Num(3), Rat(1, 2)}
\* inputs of function nodes (squares, so that sqrt stays rational)
FunctionInputValues == {Int2Num(-4), Zero, Int2Num(9), Rat(1, 4)}
\* min, max and distribution of assumption nodes
GraphAssumptions ==
  {[min |-> rg[1], max |-> rg[2], distribution |-> d] :
     rg \in {<<Int2Num(10), Int2Num(10)>>, <<One, Int2Num(10)>>},
     d \in Distributions}
  \cup {[min |-> Int2Num(-4), max |-> Int2Num(4), distribution |-> d] :
          d \in {"uniform", "normal"}}

\* c1 -> op <- c2, op -> result, the edge of c1 inserted first
BinaryGraph(operation, x, y, handles) ==
  [nodes |-> <<ConstantNode("c1", x), ConstantNode("c2", y),
               OperationNode("op", operation), ResultNode("result")>>,
   edges |-> <<Edge("c1", "op", handles[1]), Edge("c2", "op", handles[2]),
               Edge("op", "result", NoHandle)>>]

\* c1 -> op -> result: the second operand is unwired
UnwiredGraph(operation, x, handle) ==
  [nodes |-> <<ConstantNode("c1", x), OperationNode("op", operation),
               ResultNode("result")>>,
   edges |-> <<Edge("c1", "op", handle), Edge("op", "result", NoHandle)>>]

\* assumption - assumption: one assumption feeds both operands
DiamondGraph(a) ==
  [nodes |-> <<AssumptionNode("x", a.min, a.max, a.distribution),
               OperationNode("op", "subtract"), ResultNode("result")>>,
   edges |-> <<Edge("x", "op", "a"), Edge("x", "op", "b"),
               Edge("op", "result", NoHandle)>>]

\* (assumption * 1) - assumption: the assumption reaches op along two paths
TwoPathsGraph(a) ==
  [nodes |-> <<ResultNode("result"), OperationNode("op", "subtract"),
               OperationNode("scaled", "multiply"), ConstantNode("c1", One),
               AssumptionNode("x", a.min, a.max, a.distribution)>>,
   edges |-> <<Edge("x", "scaled", NoHandle), Edge("c1", "scaled", NoHandle),
               Edge("scaled", "op", "a"), Edge("x", "op", "b"),
               Edge("op", "result", NoHandle)>>]

\* c1 -> f -> result: a function node with one wired input
FunctionGraph(func, x, handle) ==
  [nodes |-> <<ConstantNode("c1", x), FunctionNode("f", func, NoParameter),
               ResultNode("result")>>,
   edges |-> <<Edge("c1", "f", handle), Edge("f", "result", NoHandle)>>]

\* c1 -> f <- c2, f -> result: a function node with two wired inputs
Function2Graph(func, x, y) ==
  [nodes |-> <<ConstantNode("c1", x), ConstantNode("c2", y),
               FunctionNode("f", func, NoParameter), ResultNode("result")>>,
   edges |-> <<Edge("c1", "f", "a"), Edge("c2", "f", "b"),
               Edge("f", "result", NoHandle)>>]

\* Assumption(10, 10, uniform) -> Operation(multiply) <- Constant(2),
\* Operation -> Result
EndToEndGraph ==
  [nodes |-> <<AssumptionNode("x", Int2Num(10), Int2Num(10), "uniform"),
               ConstantNode("c1", Int2Num(2)), OperationNode("op", "multiply"),
               ResultNode("result")>>,
   edges |-> <<Edge("x", "op", NoHandle), Edge("c1", "op", NoHandle),
               Edge("op", "result", NoHandle)>>]

\* abs(x) -> result, with sqrt(x) wired to the unused second input of abs:
\* x is uniform on [-4, 12], and sqrt(x) is NaN in the iterations that
\* sample x below 0
MixedGraph(func) ==
  [nodes |-> <<AssumptionNode("x", Int2Num(-4), Int2Num(12), "uniform"),
               FunctionNode("f", func, NoParameter),
               FunctionNode("g", "sqrt", NoParameter), ResultNode("result")>>,
   edges |-> <<Edge("x", "f", "input"), Edge("x", "g", "input"),
               Edge("f", "result", NoHandle), Edge("g", "f", "b")>>]

\* graphs without a result node
NoResultGraphs ==
  {[nodes |-> <<>>, edges |-> <<>>],
   [nodes |-> <<ConstantNode("c1", Int2Num(3)), OperationNode("op", "add")>>,
    edges |-> <<Edge("c1", "op", NoHandle)>>],
   [nodes |-> <<AssumptionNode("x", One, Int2Num(10), "uniform")>>,
    edges |-> <<>>]}

HandlePairs == {<<"a", "b">>, <<"b", "a">>, <<NoHandle, NoHandle>>,
                <<NoHandle, "b">>, <<"a", NoHandle>>, <<NoHandle, "a">>}

\* c1 -> clamp -> result, the clamp with the bounds 1 and 3 where flagged
ClampGraph(x, hasMin, hasMax) ==
  [nodes |-> <<ConstantNode("c1", x),
               ClampNode("clamp", hasMin, One, hasMax, Int2Num(3)),
               ResultNode("result")>>,
   edges |-> <<Edge("c1", "clamp", NoHandle), Edge("clamp", "result", NoHandle)>>]

\* clamp -> result: the input of the clamp is unwired
UnwiredClampGraph(hasMin, hasMax) ==
  [nodes |-> <<ClampNode("clamp", hasMin, One, hasMax, Int2Num(3)),
               ResultNode("result")>>,
   edges |-> <<Edge("clamp", "result", NoHandle)>>]

\* Four constants wired to a conditional in the given order, each edge
\* with its tag; then = 100, else = 200, b = 3
ConditionalGraph(comparison, a, wiring) ==
  [nodes |-> <<ConstantNode("a", a), ConstantNode("b", Int2Num(3)),
               ConstantNode("then", Int2Num(100)),
               ConstantNode("else", Int2Num(200)),
               ConditionalNode("cond", comparison), ResultNode("result")>>,
   edges |-> [k \in 1..Len(wiring) |->
                Edge(wiring[k][1], "cond", wiring[k][2])]
             \o <<Edge("cond", "result", NoHandle)>>]

Comparisons == {"gt", "gte", "lt", "lte", "eq", "neq"}

\* The orders and tags of the edges into the conditional: every port wired,
\* and one port left without an edge of its tag
ConditionalWirings ==
  {<<<<"a", "a">>, <<"b", "b">>, <<"then", "then">>, <<"else", "else">>>>,
   <<<<"else", "else">>, <<"then", "then">>, <<"b", "b">>, <<"a", "a">>>>,
   <<<<"a", NoHandle>>, <<"b", "b">>, <<"then", "then">>, <<"else", "else">>>>,
   <<<<"a", "a">>, <<"b", "input">>, <<"then", "then">>, <<"else", "else">>>>,
   <<<<"a", "a">>, <<"b", "b">>, <<"else", "else">>>>,
   <<<<"a", "a">>, <<"b", "b">>, <<"then", "then">>, <<"else", NoHandle>>>>}

\* op -> result: an operation node without incoming edges
NoInputGraph(operation) ==
  [nodes |-> <<OperationNode("op", operation), ResultNode("result")>>,
   edges |-> <<Edge("op", "result", NoHandle)>>]

\* c1 -> op twice and c2 -> op, with tags: three incoming edges
ThreeInputGraph(operation, x, y) ==
  [nodes |-> <<ConstantNode("c1", x), ConstantNode("c2", y),
               OperationNode("op", operation), ResultNode("result")>>,
   edges |-> <<Edge("c1", "op", "a"), Edge("c2", "op", "b"),
               Edge("c1", "op", NoHandle), Edge("op", "result", NoHandle)>>]

\* Graphs with a directed cycle of edges.  In the first four the evaluation
\* of the result node follows the cycle: through two operation nodes,
\* through a sum node that is its own input, through an untagged edge of a
\* conditional node, and through the first edge of a clamp node.
FollowedCycleGraphs ==
  {[nodes |-> <<ConstantNode("c1", Int2Num(3)), OperationNode("op", "add"),
                OperationNode("op2", "add"), ResultNode("result")>>,
    edges |-> <<Edge("c1", "op", "a"), Edge("op2", "op", "b"),
                Edge("op", "op2", "a"), Edge("op", "result", NoHandle)>>],
   [nodes |-> <<OperationNode("op", "sum"), ResultNode("result")>>,
    edges |-> <<Edge("op", "op", NoHandle), Edge("op", "result", NoHandle)>>],
   [nodes |-> <<ConditionalNode("cond", "gt"), ResultNode("result")>>,
    edges |-> <<Edge("cond", "cond", NoHandle), Edge("cond", "result", NoHandle)>>],
   [nodes |-> <<ClampNode("clamp", TRUE, One, TRUE, Int2Num(3)),
                FunctionNode("f", "abs", NoParameter), ResultNode("result")>>,
    edges |-> <<Edge("f", "clamp", NoHandle), Edge("clamp", "f", "input"),
                Edge("clamp", "result", NoHandle)>>]}

\* In these the cycle is upstream of the result node but the evaluation
\* does not follow it: it passes through a constant node, or it is entered
\* by the second incoming edge of the result node or of a clamp node only.
UnfollowedCycleGraphs ==
  {[nodes |-> <<ConstantNode("c1", Int2Num(3)), OperationNode("op", "add"),
                ResultNode("result")>>,
    edges |-> <<Edge("c1", "op", "a"), Edge("op", "c1", NoHandle),
                Edge("op", "result", NoHandle)>>],
   [nodes |-> <<ConstantNode("c1", Int2Num(3)), OperationNode("op", "sum"),
                ResultNode("result")>>,
    edges |-> <<Edge("c1", "result", NoHandle), Edge("op", "result", NoHandle),
                Edge("op", "op", NoHandle)>>],
   [nodes |-> <<ConstantNode("c1", Int2Num(3)), OperationNode("op", "sum"),
                ClampNode("clamp", TRUE, One, TRUE, Int2Num(3)),
                ResultNode("result")>>,
    edges |-> <<Edge("c1", "clamp", NoHandle), Edge("op", "clamp", NoHandle),
                Edge("op", "op", NoHandle), Edge("clamp", "result", NoHandle)>>]}

\* A cycle that is not upstream of the result node
UnreachableCycleGraphs ==
  {[nodes |-> <<ConstantNode("c1", Int2Num(3)), OperationNode("op", "add"),
                OperationNode("op2", "add"), ResultNode("result")>>,
    edges |-> <<Edge("c1", "result", NoHandle), Edge("op2", "op", "a"),
                Edge("op", "op2", "a")>>]}

\* Graphs whose result node has no incoming edge
UnwiredResultGraphs ==
  {[nodes |-> <<ResultNode("result")>>, edges |-> <<>>],
   [nodes |-> <<ConstantNode("c1", Int2Num(3)), ResultNode("result")>>,
    edges |-> <<>>]}

\* c1 -> result <- c2: the result node has two incoming edges, c1's first
TwoSourceResultGraph(x, y) ==
  [nodes |-> <<ConstantNode("c1", x), ConstantNode("c2", y),
               ResultNode("result")>>,
   edges |-> <<Edge("c1", "result", NoHandle), Edge("c2", "result", NoHandle)>>]

\* Graphs with an edge whose source id, "ghost", is the id of no node
UnknownSourceGraphs ==
  {[nodes |-> <<ResultNode("result")>>,
    edges |-> <<Edge("ghost", "result", NoHandle)>>],
   [nodes |-> <<ClampNode("clamp", TRUE, One, TRUE, Int2Num(3)),
                ResultNode("result")>>,
    edges |-> <<Edge("ghost", "clamp", NoHandle),
                Edge("clamp", "result", NoHandle)>>],
   [nodes |-> <<FunctionNode("f", "exp", Zero), ResultNode("result")>>,
    edges |-> <<Edge("ghost", "f", "input"), Edge("f", "result", NoHandle)>>]}
  \cup {[nodes |-> <<ConstantNode("c1", Int2Num(3)), OperationNode("op", o),
                     ResultNode("result")>>,
         edges |-> <<Edge("c1", "op", h[1]), Edge("ghost", "op", h[2]),
                     Edge("op", "result", NoHandle)>>] :
          o \in Operations, h \in {<<"a", "b">>, <<"b", "a">>}}
  \cup {[nodes |-> <<AssumptionNode("x", One, Int2Num(10), "uniform"),
                     OperationNode("op", o), ResultNode("result")>>,
         edges |-> <<Edge("ghost", "op", NoHandle), Edge("x", "op", NoHandle),
                     Edge("ghost", "op", NoHandle),
                     Edge("op", "result", NoHandle)>>] :
          o \in {"add", "sum", "product"}}

Graphs ==
  {BinaryGraph(o, x, y, h) :
     o \in Operations, x \in ConstantValues, y \in ConstantValues, h \in HandlePairs}
  \cup {UnwiredGraph(o, x, h) :
          o \in Operations, x \in ConstantValues, h \in {NoHandle, "a", "b"}}
  \cup {DiamondGraph(a) : a \in GraphAssumptions}
  \cup {TwoPathsGraph(a) : a \in GraphAssumptions}
  \cup {FunctionGraph(f, x, h) :
          f \in Functions, x \in FunctionInputValues, h \in {NoHandle, "input", "b"}}
  \cup {Function2Graph(f, x, y) :
          f \in {"min", "max"}, x \in ConstantValues, y \in ConstantValues}
  \cup {MixedGraph(f) : f \in {"abs", "max"}}
  \cup {EndToEndGraph}
  \cup NoResultGraphs
  \cup {ClampGraph(x, lo, hi) : x \in ConstantValues, lo \in BOOLEAN, hi \in BOOLEAN}
  \cup {UnwiredClampGraph(lo, hi) : lo \in BOOLEAN, hi \in BOOLEAN}
  \cup {ConditionalGraph(c, a, w) :
          c \in Comparisons, a \in {Int2Num(2), Int2Num(3), Int2Num(5)},
          w \in ConditionalWirings}
  \cup {NoInputGraph(o) : o \in Operations}
  \cup {ThreeInputGraph(o, x, y) :
          o \in {"sum", "product"}, x \in ConstantValues, y \in ConstantValues}
  \cup FollowedCycleGraphs \cup UnfollowedCycleGraphs \cup UnreachableCycleGraphs
  \cup UnwiredResultGraphs
  \cup {TwoSourceResultGraph(x, y) : x \in ConstantValues, y \in ConstantValues}
  \cup UnknownSourceGraphs

-----------------------------------------------------------------------------
(***************************************************************************)
(* State                                                                   *)
(***************************************************************************)
VARIABLES
  graph,          \* runGraphSimulation: the graph argument
  iterations,     \* runGraphSimulation: the iterations argument
  pc,             \* "run" inside runGraphSimulation, "done" once it returned,
                  \* "recursing" in a recursion without end
  i,              \* the loop counter of the iteration loop
  nodeSamples,    \* the Map nodeSamples
  lastIteration,  \* the evaluation state the latest iteration ended with
  nodeResults,    \* the returned nodeResults
  finalResult,    \* the returned finalResult
  assumption,     \* sampleAssumption: its argument
  sampled,        \* sampleAssumption: what the call returned
  samples,        \* calculateStats: its argument
  summary,        \* calculateStats: what the call returned
  simulation,     \* runSimulation: its arguments, i, samples and its result,
                  \* and what its caller stored
  store           \* useGraphStore: the state of the graph store

graphVars == <<graph, iterations, pc, i, nodeSamples, lastIteration,
               nodeResults, finalResult>>
samplerVars == <<assumption, sampled>>
statsVars == <<samples, summary>>
vars == <<graphVars, samplerVars, statsVars, simulation, store>>

\* The value of finalResult before runGraphSimulation returned
NotReturned ==
  [samples |-> <<>>, percentiles |-> ZeroPercentiles, mean |-> NaN,
   stdDev |-> NaN]

\* What lastIteration keeps of an evaluation state: the cache, the counts
\* and the outcomes of the calls of Math.random() the iteration made
Consumed(r) == [k \in 1..r.pos |-> r.tape[((k - 1) % Len(r.tape)) + 1]]
IterationRecord(e) ==
  [vals |-> e.vals, computed |-> e.computed, draws |-> Consumed(e.r)]

NoIteration == [vals |-> EmptyMap, computed |-> EmptyMap, draws |-> <<>>]

\* The components a specification does not run
GraphIdle ==
  /\ graph = [nodes |-> <<>>, edges |-> <<>>]
  /\ iterations = 0
  /\ pc = "idle"
  /\ i = 0
  /\ nodeSamples = EmptyMap
  /\ lastIteration = NoIteration
  /\ nodeResults = EmptyMap
  /\ finalResult = NotReturned

SamplerIdle ==
  /\ assumption = [id |-> "", min |-> Zero, max |-> Zero, distribution |-> ""]
  /\ sampled = [returned |-> FALSE, v |-> Zero, attempts |-> 0, calls |-> 0,
                tape |-> <<>>]

StatsIdle ==
  /\ samples = <<>>
  /\ summary = [returned |-> FALSE, stats |-> NotReturned]

SimulationIdle ==
  simulation = [assumptions |-> <<>>, formula |-> <<>>, iterations |-> 0,
                pc |-> "idle", i |-> 0, values |-> EmptyMap, evaluated |-> NaN,
                samples |-> <<>>, result |-> NotReturned, caller |-> "none",
                stored |-> <<>>, error |-> "null"]

\* createEmptyGraph(): the graph the store starts with
createEmptyGraph == [nodes |-> <<>>, edges |-> <<>>]

\* layoutGraph not called: no nodeLevel map, no pass of its level loop made
NoLayout == [pc |-> "idle", nodeLevel |-> <<>>, passes |-> 0]

\* The store before any action: the initial state create() is given. uuids
\* counts the ids uuidv4() has issued, the k-th being k; called is the
\* latest action and its id argument; computedOn is the graph that was
\* current when the simulationResult the store holds was set; layout is
\* the position of the call of layoutGraph and its local nodeLevel
InitialStore ==
  [currentGraph |-> createEmptyGraph, simulationResult |-> "null",
   nodeSimulationResults |-> "empty", versions |-> <<>>,
   uuids |-> 0, called |-> [op |-> "create", id |-> 0],
   computedOn |-> createEmptyGraph, layout |-> NoLayout]

StoreIdle == store = InitialStore

-----------------------------------------------------------------------------
(***************************************************************************)
(* runGraphSimulation as a state machine                                   *)
(***************************************************************************)
GraphInit ==
  /\ graph \in Graphs
  /\ iterations \in 0..MaxIterations
  /\ pc = "run"
  /\ i = 0
  /\ nodeSamples = InitialNodeSamples(graph)
  /\ lastIteration = NoIteration
  /\ nodeResults = EmptyMap
  /\ finalResult = NotReturned

\* if (!resultNode) return { finalResult: all zero, nodeResults }
ReturnWithoutResultNode ==
  /\ pc = "run"
  /\ ~HasResultNode(graph)
  /\ finalResult' = ZeroResult
  /\ nodeResults' = EmptyMap
  /\ pc' = "done"
  /\ UNCHANGED <<graph, iterations, i, nodeSamples, lastIteration>>

\* The end of a pass of the iteration loop, e being the evaluation state
\* computeNodeValue(resultNode.id, iterationValues) ended in
StoreIteration(e) ==
  /\ lastIteration' = IterationRecord(e)
  /\ nodeSamples' = StoreValues(nodeSamples, e.vals)

\* A pass of the iteration loop whose computeNodeValue(resultNode.id, ...)
\* recurses without end: the call does not return (the engine ends it with
\* a RangeError that runGraphSimulation does not catch), no value is stored
\* and nothing is returned
Recurse ==
  /\ pc = "run"
  /\ HasResultNode(graph)
  /\ i < iterations
  /\ Reenters(graph, FindResultNode(graph).id, {})
  /\ pc' = "recursing"
  /\ UNCHANGED <<graph, iterations, i, nodeSamples, lastIteration, nodeResults,
                 finalResult>>

\* Iterate with the cache of the pass before in place of new Map()
IterateCarried ==
  /\ pc = "run"
  /\ HasResultNode(graph)
  /\ i < iterations
  /\ ~Reenters(graph, FindResultNode(graph).id, {})
  /\ \E tape \in IterationTapes :
       StoreIteration(computeNodeValue(graph, FindResultNode(graph).id,
                        [FreshIteration(graph, tape)
                           EXCEPT !.vals = lastIteration.vals]))
  /\ i' = i + 1
  /\ UNCHANGED <<graph, iterations, pc, nodeResults, finalResult>>

\* One pass of for (let i = 0; i < iterations; i++)
Iterate ==
  /\ pc = "run"
  /\ HasResultNode(graph)
  /\ i < iterations
  /\ ~Reenters(graph, FindResultNode(graph).id, {})
  /\ \E tape \in IterationTapes :
       StoreIteration(computeNodeValue(graph, FindResultNode(graph).id,
                                       FreshIteration(graph, tape)))
  /\ i' = i + 1
  /\ UNCHANGED <<graph, iterations, pc, nodeResults, finalResult>>

\* After the loop: the statistics of every node and the final result
ReturnResults ==
  /\ pc = "run"
  /\ HasResultNode(graph)
  /\ ~(i < iterations)
  /\ nodeResults' = NodeStatistics(nodeSamples)
  /\ finalResult' = FinalResultOf(graph, nodeSamples)
  /\ pc' = "done"
  /\ UNCHANGED <<graph, iterations, i, nodeSamples, lastIteration>>

Init == GraphInit /\ SamplerIdle /\ StatsIdle /\ SimulationIdle /\ StoreIdle

Next ==
  \/ ReturnWithoutResultNode /\ UNCHANGED <<samplerVars, statsVars, simulation, store>>
  \/ Iterate /\ UNCHANGED <<samplerVars, statsVars, simulation, store>>
  \/ Recurse /\ UNCHANGED <<samplerVars, statsVars, simulation, store>>
  \/ ReturnResults /\ UNCHANGED <<samplerVars, statsVars, simulation, store>>

Spec == Init /\ [][Next]_vars

\* The graphs with cycles, those without a result node, and graphs without
\* a cycle
RunGraphs ==
  FollowedCycleGraphs \cup UnfollowedCycleGraphs \cup UnreachableCycleGraphs
  \cup NoResultGraphs
  \cup {BinaryGraph("subtract", x, y, <<"a", "b">>) :
          x \in ConstantValues, y \in ConstantValues}
  \cup {UnwiredClampGraph(lo, hi) : lo \in BOOLEAN, hi \in BOOLEAN}
  \cup {DiamondGraph(a) : a \in GraphAssumptions}

RunStart == Init /\ graph \in RunGraphs

\* What a step of the run does to the loop counter and to pc: Advance has
\* the conditions of the four steps of Next and leaves the rest of the
\* state open, so a step of Next is a step of Advance and Advance is
\* enabled where Next is
Advance ==
  /\ pc = "run"
  /\ \/ ~HasResultNode(graph) /\ pc' = "done" /\ i' = i
     \/ /\ HasResultNode(graph) /\ i < iterations
        /\ IF Reenters(graph, FindResultNode(graph).id, {})
           THEN pc' = "recursing" /\ i' = i
           ELSE pc' = pc /\ i' = i + 1
     \/ HasResultNode(graph) /\ ~(i < iterations) /\ pc' = "done" /\ i' = i

\* runGraphSimulation is synchronous code that runs to its end: a step it
\* can take, it takes
SpecRun == RunStart /\ [][Next]_vars /\ WF_<<i, pc>>(Advance)

\* x -> result, x uniform between 1 and 2^(Precision + 1) - 1: the draws 0
\* and 1/2 give the samples 1 and 2^Precision
WideGraph ==
  [nodes |-> <<AssumptionNode("x", One, Int2Num(2^(Precision + 1) - 1), "uniform"),
               ResultNode("result")>>,
   edges |-> <<Edge("x", "result", NoHandle)>>]

\* The runs whose iterations are compared in every order: one iteration
\* more than MaxIterations, on a part of the graphs
OrderGraphs ==
  {WideGraph}
  \cup {TwoPathsGraph(a) : a \in {b \in GraphAssumptions : b.distribution # "normal"}}
  \cup {DiamondGraph(a) : a \in {b \in GraphAssumptions : b.min = One}}
  \cup {MixedGraph("max")}
  \cup NoResultGraphs \cup FollowedCycleGraphs \cup UnknownSourceGraphs

OrderStart ==
  /\ graph \in OrderGraphs
  /\ iterations \in 0..(MaxIterations + 1)
  /\ pc = "run"
  /\ i = 0
  /\ nodeSamples = InitialNodeSamples(graph)
  /\ lastIteration = NoIteration
  /\ nodeResults = EmptyMap
  /\ finalResult = NotReturned
  /\ SamplerIdle /\ StatsIdle /\ SimulationIdle /\ StoreIdle

SpecOrder == OrderStart /\ [][Next]_vars

-----------------------------------------------------------------------------
(***************************************************************************)
(* sampleAssumption as a state machine: one call on an assumption with     *)
(* min <= max, and on a normal assumption with min > max                   *)
(***************************************************************************)
SamplerRanges ==
  {<<Int2Num(10), Int2Num(10)>>, <<One, Int2Num(10)>>, <<Zero, Zero>>,
   <<Int2Num(-4), Int2Num(-4)>>, <<Int2Num(-4), Zero>>, <<Zero, One>>}

SamplerAssumptions ==
  {[id |-> "x", min |-> rg[1], max |-> rg[2], distribution |-> d] :
     rg \in SamplerRanges, d \in Distributions}
  \cup {[id |-> "x", min |-> Int2Num(-4), max |-> Int2Num(4), distribution |-> d] :
          d \in {"uniform", "normal"}}
  \cup {[id |-> "x", min |-> Int2Num(4), max |-> Int2Num(-4),
          distribution |-> "normal"]}

SamplerInit ==
  /\ assumption \in SamplerAssumptions
  /\ sampled = [returned |-> FALSE, v |-> Zero, attempts |-> 0, calls |-> 0,
                tape |-> <<>>]

\* What a call returned: the value, the passes of the rejection loop, the
\* calls of Math.random() it made and their outcomes
ReturnedSample(s, tape) ==
  [returned |-> TRUE, v |-> s.v, attempts |-> s.attempts, calls |-> s.r.pos,
   tape |-> tape]

\* sampleAssumption(assumption)
Sample ==
  /\ ~sampled.returned
  /\ \E tape \in Tapes :
       sampled' = ReturnedSample(
                    sampleAssumption(assumption, [tape |-> tape, pos |-> 0]), tape)
  /\ UNCHANGED assumption

SamplerNext == Sample /\ UNCHANGED <<graphVars, statsVars, simulation, store>>

SamplerStart == GraphIdle /\ SamplerInit /\ StatsIdle /\ SimulationIdle /\ StoreIdle

SpecSampler == SamplerStart /\ [][SamplerNext]_vars

-----------------------------------------------------------------------------
(***************************************************************************)
(* calculateStats as a state machine: one call on a list of finite samples *)
(***************************************************************************)
SampleValues == {Int2Num(-4), Zero, Rat(1, 2), Int2Num(3)}

OneToTen == [k \in 1..10 |-> Int2Num(k)]
TenToOne == [k \in 1..10 |-> Int2Num(11 - k)]

SampleLists ==
  UNION {[1..n -> SampleValues] : n \in 0..MaxLen} \cup {OneToTen, TenToOne}

StatsInit ==
  /\ samples \in SampleLists
  /\ summary = [returned |-> FALSE, stats |-> NotReturned]

\* calculateStats(samples)
Summarize ==
  /\ ~summary.returned
  /\ summary' = [returned |-> TRUE, stats |-> calculateStats(samples)]
  /\ UNCHANGED samples

StatsNext == Summarize /\ UNCHANGED <<graphVars, samplerVars, simulation, store>>

StatsStart == GraphIdle /\ SamplerIdle /\ StatsInit /\ SimulationIdle /\ StoreIdle

SpecStats == StatsStart /\ [][StatsNext]_vars

-----------------------------------------------------------------------------
(***************************************************************************)
(* runSimulation as a state machine                                        *)
(***************************************************************************)
LegacyAssumption(name, min, max, distribution) ==
  [id |-> name, name |-> name, min |-> min, max |-> max,
   distribution |-> distribution]

AssumptionLists ==
  {<<>>,
   <<LegacyAssumption("a", One, Int2Num(10), "uniform")>>,
   <<LegacyAssumption("a", Int2Num(10), Int2Num(10), "normal")>>,
   <<LegacyAssumption("a", Int2Num(-4), Int2Num(4), "uniform"),
     LegacyAssumption("b", Zero, Zero, "uniform")>>}

FormulaTokens ==
  {NumToken(Int2Num(2)), NameToken("a", 0), NameToken("b", 0), NameToken("q", 0),
   NameToken("fee", 2), Punct("-"), Punct("*"), Punct("/"), Punct("("), Punct(")")}

Formulas ==
  UNION {[1..n -> FormulaTokens] : n \in 0..MaxFormulaLen}
  \cup {<<NameToken("a", 0), Punct("/"), Punct("("), NameToken("b", 0), Punct(")")>>,
        <<Punct("("), NameToken("a", 0), Punct("-"), NumToken(Int2Num(2)), Punct(")"),
          Punct("*"), NumToken(Rat(1, 2))>>,
        <<NumToken(Int2Num(2)), Punct("*"), NameToken("q", 0), NameToken("a", 0)>>}

SimulationInit ==
  \E assumptions \in AssumptionLists, formula \in Formulas,
     n \in 0..MaxIterations :
    simulation = [assumptions |-> assumptions, formula |-> formula,
                  iterations |-> n, pc |-> "run", i |-> 0, values |-> EmptyMap,
                  evaluated |-> NaN, samples |-> <<>>, result |-> NotReturned,
                  caller |-> "none", stored |-> <<>>, error |-> "null"]

\* The end of a pass of the loop: values and evaluated are the locals
\* values and result of the pass
Pushed(values, result) ==
  simulation' =
    [simulation EXCEPT !.values = values, !.evaluated = result,
                       !.samples = PushResult(@, result), !.i = @ + 1]

\* const result = evaluateFormula(formula, values) and the push, drawn.values
\* being the values of the assumptions
EvaluateAndPush(drawn) ==
  Pushed(drawn.values, evaluateFormula(simulation.formula, drawn.values))

\* One pass of for (let i = 0; i < iterations; i++)
SimulationIterate ==
  /\ simulation.pc = "run"
  /\ simulation.i < simulation.iterations
  /\ \E tape \in IterationTapes :
       EvaluateAndPush(SampleAll(simulation.assumptions, 1, EmptyMap,
                                 [tape |-> tape, pos |-> 0]))

\* After the loop: sort, mean, variance, percentiles, return
SimulationReturn ==
  /\ simulation.pc = "run"
  /\ ~(simulation.i < simulation.iterations)
  /\ simulation' = [simulation EXCEPT !.pc = "done",
                                      !.result = SimulationResult(simulation.samples)]

\* The callers of runSimulation.  simulation.stored is the simulationResult
\* of the estimate store the callers write with setSimulationResult, <<>>
\* for null and <<result>> for a result; simulation.error is the error state
\* of the caller; simulation.caller names the caller once it acted.
\* useSimulation.run before its setTimeout: the early returns for an
\* estimate without assumptions or without formula
UseSimulationRejects ==
  /\ simulation.pc = "run"
  /\ simulation.i = 0
  /\ Len(simulation.assumptions) = 0 \/ simulation.formula = <<>>
  /\ simulation' =
       [simulation EXCEPT !.pc = "rejected", !.caller = "useSimulation.run",
          !.error = IF Len(simulation.assumptions) = 0
                    THEN "Add at least one assumption" ELSE "Enter a formula"]

\* useSimulation.run, what its callback stores for the returned result
StoredUnlessEmpty(result) ==
  IF Len(result.samples) = 0 THEN <<>> ELSE <<result>>

\* useSimulation.run: the callback, after runSimulation returned
UseSimulationStores ==
  /\ simulation.pc = "done"
  /\ Len(simulation.assumptions) > 0
  /\ simulation.formula # <<>>
  /\ simulation' =
       [simulation EXCEPT !.pc = "handled", !.caller = "useSimulation.run",
          !.stored = StoredUnlessEmpty(simulation.result),
          !.error = IF Len(simulation.result.samples) = 0
                    THEN "Simulation produced no valid results. Check your formula."
                    ELSE "null"]

\* ResultsPanel.handleRunSimulation: the callback, after runSimulation
\* returned (canRun held)
ResultsPanelStores ==
  /\ simulation.pc = "done"
  /\ Len(simulation.assumptions) > 0
  /\ simulation.formula # <<>>
  /\ simulation' =
       [simulation EXCEPT !.pc = "handled",
                          !.caller = "ResultsPanel.handleRunSimulation",
                          !.stored = <<simulation.result>>]

SimulationNext ==
  \/ SimulationIterate /\ UNCHANGED <<graphVars, samplerVars, statsVars, store>>
  \/ SimulationReturn /\ UNCHANGED <<graphVars, samplerVars, statsVars, store>>
  \/ UseSimulationRejects /\ UNCHANGED <<graphVars, samplerVars, statsVars, store>>
  \/ UseSimulationStores /\ UNCHANGED <<graphVars, samplerVars, statsVars, store>>
  \/ ResultsPanelStores /\ UNCHANGED <<graphVars, samplerVars, statsVars, store>>

SimulationStart ==
  GraphIdle /\ SamplerIdle /\ StatsIdle /\ SimulationInit /\ StoreIdle

SpecSimulation == SimulationStart /\ [][SimulationNext]_vars

-----------------------------------------------------------------------------
(***************************************************************************)
(* The graph store as a state machine: its actions that add and remove     *)
(* nodes and edges of the current graph, set the simulation results and    *)
(* save and restore versions.  A node is modelled by its id, its type and  *)
(* the number data.value ("none" where the data has none), an edge by its  *)
(* id, source, target and targetHandle.  The numbers the store holds are   *)
(* not computed with and are modelled by their names.                      *)
(***************************************************************************)
\* The target handles the store is called with
StoreHandles == {NoHandle, "a"}

\* The values addConstantNode is called with
StoreNumbers == {"3", "Infinity"}

\* The ids the store is called with: those issued so far, and one not issued
KnownIds(s) == 1..(s.uuids + 1)

\* set({currentGraph: {...currentGraph, nodes: [...nodes, newNode]}}), the
\* new node with the next id of uuidv4()
WithNode(s, type, value) ==
  [s EXCEPT !.currentGraph.nodes =
               Append(@, [id |-> s.uuids + 1, type |-> type, value |-> value]),
            !.uuids = @ + 1]

addConstantNode(s, value) ==
  [WithNode(s, "constant", value)
     EXCEPT !.simulationResult = "null", !.computedOn = createEmptyGraph,
            !.called = [op |-> "addConstantNode", id |-> 0]]

\* addResultNode sets currentGraph only
addResultNode(s) ==
  [WithNode(s, "result", "none")
     EXCEPT !.called = [op |-> "addResultNode", id |-> 0]]

\* removeNode that filters the edges by their source only
removeNodeKeepsIncoming(s, id) ==
  [s EXCEPT !.currentGraph.nodes = SelectSeq(@, LAMBDA node : node.id # id),
            !.currentGraph.edges = SelectSeq(@, LAMBDA edge : edge.source # id),
            !.simulationResult = "null", !.computedOn = createEmptyGraph,
            !.called = [op |-> "removeNode", id |-> id]]

removeNode(s, id) ==
  [s EXCEPT !.currentGraph.nodes = SelectSeq(@, LAMBDA node : node.id # id),
            !.currentGraph.edges =
               SelectSeq(@, LAMBDA edge : edge.source # id /\ edge.target # id),
            !.simulationResult = "null", !.computedOn = createEmptyGraph,
            !.called = [op |-> "removeNode", id |-> id]]

\* onNodesChange(changes) with the one change {type: 'remove', id}:
\* applyNodeChanges drops the node
onNodesChange(s, id) ==
  [s EXCEPT !.currentGraph.nodes = SelectSeq(@, LAMBDA node : node.id # id),
            !.called = [op |-> "onNodesChange", id |-> id]]

connectNodes(s, sourceId, targetId, targetHandle) ==
  [s EXCEPT !.currentGraph.edges =
               Append(@, [id |-> s.uuids + 1, source |-> sourceId,
                          target |-> targetId, targetHandle |-> targetHandle]),
            !.uuids = @ + 1,
            !.simulationResult = "null", !.computedOn = createEmptyGraph,
            !.called = [op |-> "connectNodes", id |-> 0]]

removeEdge(s, id) ==
  [s EXCEPT !.currentGraph.edges = SelectSeq(@, LAMBDA edge : edge.id # id),
            !.simulationResult = "null", !.computedOn = createEmptyGraph,
            !.called = [op |-> "removeEdge", id |-> id]]

\* setSimulationResult(result), result being null or a result its caller
\* computed on the current graph
setSimulationResult(s, result) ==
  [s EXCEPT !.simulationResult = result,
            !.computedOn = IF result = "null" THEN createEmptyGraph
                           ELSE s.currentGraph,
            !.called = [op |-> "setSimulationResult", id |-> 0]]

\* updateResultNode(result) and setNodeSimulationResults(results), as the
\* handlers that ran runGraphSimulation on the current graph call them:
\* every result node gets data.value = result.percentiles.p50
ResultShown(nodes) ==
  [k \in 1..Len(nodes) |->
     IF nodes[k].type = "result" THEN [nodes[k] EXCEPT !.value = "p50"]
     ELSE nodes[k]]
updateResultNode(s) ==
  [s EXCEPT !.currentGraph.nodes = ResultShown(@),
            !.simulationResult = "result",
            !.nodeSimulationResults = "results",
            !.computedOn = [s.currentGraph EXCEPT !.nodes = ResultShown(@)],
            !.called = [op |-> "updateResultNode", id |-> 0]]

\* JSON.parse(JSON.stringify(graph)): a number that is not finite becomes
\* null; strings stay, a key of value undefined is left out and reads
\* undefined again
JsonNumber(value) == IF value \in {"Infinity", "NaN"} THEN "null" ELSE value
JsonClone(g) ==
  [g EXCEPT !.nodes = [k \in 1..Len(g.nodes) |->
                         [g.nodes[k] EXCEPT !.value = JsonNumber(@)]]]

\* saveVersion keeping up to one version more than VersionCap
saveVersionUncapped(s) ==
  [s EXCEPT !.versions =
               SubSeq(<<[id |-> s.uuids + 1, graph |-> JsonClone(s.currentGraph),
                         simulationResult |->
                           IF s.simulationResult # "null" THEN "p5 p50 p95"
                           ELSE "undefined"]>> \o @,
                      1, IF Len(@) + 1 < VersionCap + 1 THEN Len(@) + 1
                         ELSE VersionCap + 1),
            !.uuids = @ + 1,
            !.called = [op |-> "saveVersion", id |-> 0]]

\* saveVersion(description): [version, ...versions].slice(0, 50)
saveVersion(s) ==
  [s EXCEPT !.versions =
               SubSeq(<<[id |-> s.uuids + 1, graph |-> JsonClone(s.currentGraph),
                         simulationResult |->
                           IF s.simulationResult # "null" THEN "p5 p50 p95"
                           ELSE "undefined"]>> \o @,
                      1, IF Len(@) + 1 < VersionCap THEN Len(@) + 1 ELSE VersionCap),
            !.uuids = @ + 1,
            !.called = [op |-> "saveVersion", id |-> 0]]

\* versions.find((v) => v.id === versionId)
HasVersion(s, versionId) ==
  \E k \in 1..Len(s.versions) : s.versions[k].id = versionId
FindVersion(s, versionId) ==
  s.versions[CHOOSE k \in 1..Len(s.versions) :
               /\ s.versions[k].id = versionId
               /\ \A j \in 1..(k - 1) : s.versions[j].id # versionId]

\* restoreVersion that keeps simulationResult and nodeSimulationResults
restoreVersionKeepsResults(s, versionId) ==
  IF ~HasVersion(s, versionId)
  THEN [s EXCEPT !.called = [op |-> "restoreVersion", id |-> versionId]]
  ELSE [s EXCEPT !.currentGraph = FindVersion(s, versionId).graph,
                 !.called = [op |-> "restoreVersion", id |-> versionId]]

\* restoreVersion(versionId)
restoreVersion(s, versionId) ==
  IF ~HasVersion(s, versionId)
  THEN [s EXCEPT !.called = [op |-> "restoreVersion", id |-> versionId]]
  ELSE [s EXCEPT !.currentGraph = JsonClone(FindVersion(s, versionId).graph),
                 !.simulationResult = "null", !.computedOn = createEmptyGraph,
                 !.nodeSimulationResults = "empty",
                 !.called = [op |-> "restoreVersion", id |-> versionId]]

clearVersions(s) ==
  [s EXCEPT !.versions = <<>>, !.called = [op |-> "clearVersions", id |-> 0]]

AddConstantNode ==
  /\ store.uuids < MaxUuids
  /\ \E value \in StoreNumbers : store' = addConstantNode(store, value)

AddResultNode ==
  /\ store.uuids < MaxUuids
  /\ store' = addResultNode(store)

RemoveNode == \E id \in KnownIds(store) : store' = removeNode(store, id)

OnNodesChange == \E id \in KnownIds(store) : store' = onNodesChange(store, id)

ConnectNodes ==
  /\ store.uuids < MaxUuids
  /\ \E sourceId \in KnownIds(store), targetId \in KnownIds(store),
        targetHandle \in StoreHandles :
        store' = connectNodes(store, sourceId, targetId, targetHandle)

RemoveEdge == \E id \in KnownIds(store) : store' = removeEdge(store, id)

SetSimulationResult ==
  \E result \in {"null", "result"} : store' = setSimulationResult(store, result)

UpdateResultNode == store' = updateResultNode(store)

\* saveVersion, while uuidv4() has issued fewer than limit ids
SaveVersion(limit) ==
  /\ store.uuids < limit
  /\ store' = saveVersion(store)

\* The ids restoreVersion is called with: those of the newest and of the
\* oldest version stored, and one no version has
RestoredIds(s) ==
  {s.versions[k].id : k \in {1, Len(s.versions)} \cap DOMAIN s.versions}
  \cup {s.uuids + 1}

RestoreVersion ==
  \E versionId \in RestoredIds(store) : store' = restoreVersion(store, versionId)

ClearVersions == store' = clearVersions(store)

StoreNext ==
  \/ AddConstantNode /\ UNCHANGED <<graphVars, samplerVars, statsVars, simulation>>
  \/ AddResultNode /\ UNCHANGED <<graphVars, samplerVars, statsVars, simulation>>
  \/ RemoveNode /\ UNCHANGED <<graphVars, samplerVars, statsVars, simulation>>
  \/ OnNodesChange /\ UNCHANGED <<graphVars, samplerVars, statsVars, simulation>>
  \/ ConnectNodes /\ UNCHANGED <<graphVars, samplerVars, statsVars, simulation>>
  \/ RemoveEdge /\ UNCHANGED <<graphVars, samplerVars, statsVars, simulation>>
  \/ SetSimulationResult
       /\ UNCHANGED <<graphVars, samplerVars, statsVars, simulation>>
  \/ UpdateResultNode /\ UNCHANGED <<graphVars, samplerVars, statsVars, simulation>>
  \/ SaveVersion(MaxUuids)
       /\ UNCHANGED <<graphVars, samplerVars, statsVars, simulation>>
  \/ RestoreVersion /\ UNCHANGED <<graphVars, samplerVars, statsVars, simulation>>
  \/ ClearVersions /\ UNCHANGED <<graphVars, samplerVars, statsVars, simulation>>

StoreStart ==
  GraphIdle /\ SamplerIdle /\ StatsIdle /\ SimulationIdle /\ StoreIdle

SpecStore == StoreStart /\ [][StoreNext]_vars

\* The store under saveVersion, restoreVersion and clearVersions, called
\* until more versions were saved than the list keeps, with addConstantNode
\* between them so that the versions differ
VersionsNext ==
  \/ AddConstantNode /\ UNCHANGED <<graphVars, samplerVars, statsVars, simulation>>
  \/ SaveVersion(VersionCap + MaxUuids)
       /\ UNCHANGED <<graphVars, samplerVars, statsVars, simulation>>
  \/ RestoreVersion /\ UNCHANGED <<graphVars, samplerVars, statsVars, simulation>>
  \/ ClearVersions /\ UNCHANGED <<graphVars, samplerVars, statsVars, simulation>>

SpecVersions == StoreStart /\ [][VersionsNext]_vars

-----------------------------------------------------------------------------
(***************************************************************************)
(* layoutGraph of the graph store.  Its level loop is followed pass by     *)
(* pass, for MaxPasses passes; the positions are set in one step after the *)
(* loop.  A node of the graphs it is called on is its id, its type and its *)
(* position, x an integer and y a number.                                  *)
(***************************************************************************)
ASSUMPTION_WIDTH == 220
ASSUMPTION_HEIGHT == 180
CONSTANT_HEIGHT == 120
OPERATION_SIZE == 100
FUNCTION_SIZE == 100
CONDITIONAL_SIZE == 120
CLAMP_SIZE == 100
RESULT_HEIGHT == 150
HORIZONTAL_GAP == 80
VERTICAL_GAP == 30
START_X == 50
START_Y == 50

IntermediateTypes == {"operation", "function", "conditional", "clamp"}

\* nodes.filter(...): the assumptions, then the constants
sourceNodes(g) ==
  SelectSeq(g.nodes, LAMBDA node : node.type = "assumption")
    \o SelectSeq(g.nodes, LAMBDA node : node.type = "constant")
intermediateNodes(g) ==
  SelectSeq(g.nodes, LAMBDA node : node.type \in IntermediateTypes)

\* for (const src of sourceNodes) nodeLevel.set(src.id, 0)
SourceLevels(g) ==
  [id \in {sourceNodes(g)[k].id : k \in 1..Len(sourceNodes(g))} |-> 0]

\* nodeLevel.get(id) ?? 0
LevelOrZero(nodeLevel, id) ==
  IF id \in DOMAIN nodeLevel THEN nodeLevel[id] ELSE 0

\* The largest of a finite set of integers
Largest(levels) == CHOOSE m \in levels : \A l \in levels : l <= m

\* maxInputLevel taken from the first incoming edge alone
MaxInputLevelFirst(g, nodeLevel, id) ==
  LET incomingEdges == SelectSeq(g.edges, LAMBDA e : e.target = id)
  IN  IF incomingEdges = <<>> THEN 0
      ELSE LevelOrZero(nodeLevel, incomingEdges[1].source)

\* maxInputLevel over edges.filter((e) => e.target === node.id), from 0
MaxInputLevel(g, nodeLevel, id) ==
  Largest({0} \cup {LevelOrZero(nodeLevel, g.edges[k].source) :
                       k \in {j \in 1..Len(g.edges) : g.edges[j].target = id}})

\* One pass of the while loop over the intermediate nodes from the k-th
\* on: a node whose newLevel is above its level gets it, and the nodes
\* after it in the same pass read it.  (The map after a set is bound by a
\* quantifier, which has it computed once.)
RECURSIVE LevelPass(_, _, _, _)
LevelPass(g, k, nodeLevel, changed) ==
  IF k > Len(intermediateNodes(g))
  THEN [nodeLevel |-> nodeLevel, changed |-> changed]
  ELSE IF MaxInputLevel(g, nodeLevel, intermediateNodes(g)[k].id) + 1
            > LevelOrZero(nodeLevel, intermediateNodes(g)[k].id)
       THEN CHOOSE r \in
              {LevelPass(g, k + 1, set, TRUE) :
                 set \in {CacheSet(nodeLevel, intermediateNodes(g)[k].id,
                            MaxInputLevel(g, nodeLevel,
                                          intermediateNodes(g)[k].id) + 1)}} : TRUE
  ELSE LevelPass(g, k + 1, nodeLevel, changed)

\* Math.max(...Array.from(nodeLevel.values()), 0)
maxLevel(nodeLevel) ==
  Largest({0} \cup {nodeLevel[id] : id \in DOMAIN nodeLevel})

getNodeHeight(node) ==
  CASE node.type = "assumption" -> ASSUMPTION_HEIGHT
    [] node.type = "constant" -> CONSTANT_HEIGHT
    [] node.type = "operation" -> OPERATION_SIZE
    [] node.type = "function" -> FUNCTION_SIZE
    [] node.type = "conditional" -> CONDITIONAL_SIZE
    [] node.type = "clamp" -> CLAMP_SIZE
    [] node.type = "result" -> RESULT_HEIGHT
    [] OTHER -> OPERATION_SIZE

Half(height) == Div(Int2Num(height), Int2Num(2))

\* getNodeCenterY(nodeId) with the positions set so far
getNodeCenterY(g, nodePositions, nodeId) ==
  IF nodeId \notin DOMAIN nodePositions THEN Int2Num(START_Y)
  ELSE IF ~\E k \in 1..Len(g.nodes) : g.nodes[k].id = nodeId
       THEN nodePositions[nodeId].y
  ELSE CHOOSE centre \in
         {Add(y, half) :
            y \in {nodePositions[nodeId].y},
            half \in {Half(getNodeHeight(
                        g.nodes[CHOOSE k \in 1..Len(g.nodes) :
                                  /\ g.nodes[k].id = nodeId
                                  /\ \A j \in 1..(k - 1) :
                                       g.nodes[j].id # nodeId]))}} : TRUE

\* sourceNodes.forEach((node, idx) => nodePositions.set(...)) from the
\* k-th source node on
RECURSIVE SourcePositions(_, _, _)
SourcePositions(g, k, nodePositions) ==
  IF k > Len(sourceNodes(g)) THEN nodePositions
  ELSE CHOOSE r \in
         {SourcePositions(g, k + 1, set) :
            set \in {CacheSet(nodePositions, sourceNodes(g)[k].id,
                       [x |-> START_X,
                        y |-> Int2Num(START_Y + (k - 1)
                                * (ASSUMPTION_HEIGHT + VERTICAL_GAP))])}} : TRUE

\* inputCenterYs.reduce((a, b) => a + b, 0): a is sum, and the edges from
\* the k-th on are to be added
RECURSIVE SumCenterYs(_, _, _, _, _)
SumCenterYs(g, nodePositions, incomingEdges, k, sum) ==
  IF k > Len(incomingEdges) THEN sum
  ELSE CHOOSE r \in
         {SumCenterYs(g, nodePositions, incomingEdges, k + 1, a) :
            a \in {Add(sum, b) :
                     b \in {getNodeCenterY(g, nodePositions,
                                           incomingEdges[k].source)}}} : TRUE

\* The y of an intermediate node: the average of the centres of its
\* inputs less half its height, START_Y without inputs
BracketY(g, nodePositions, node) ==
  LET incomingEdges == SelectSeq(g.edges, LAMBDA e : e.target = node.id)
  IN  IF incomingEdges = <<>> THEN Int2Num(START_Y)
      ELSE CHOOSE y \in
             {Sub(avgY, half) :
                avgY \in {Div(total, Int2Num(Len(incomingEdges))) :
                            total \in {SumCenterYs(g, nodePositions,
                                                   incomingEdges, 1, Zero)}},
                half \in {Half(getNodeHeight(node))}} : TRUE

\* The intermediate nodes in the order the loops for (level = 1; level <=
\* maxLevel; level++) for (const node of nodesAtLevel) take them, each
\* with its level
RECURSIVE NodesByLevel(_, _, _)
NodesByLevel(g, nodeLevel, level) ==
  IF level > maxLevel(nodeLevel) THEN <<>>
  ELSE [k \in 1..Len(SelectSeq(intermediateNodes(g),
                       LAMBDA node : LevelOrZero(nodeLevel, node.id) = level)) |->
          [node |-> SelectSeq(intermediateNodes(g),
                      LAMBDA node : LevelOrZero(nodeLevel, node.id) = level)[k],
           level |-> level]]
         \o NodesByLevel(g, nodeLevel, level + 1)

\* nodePositions.set(node.id, {x, y}) for the nodes of order from the k-th on
RECURSIVE LevelPositions(_, _, _, _)
LevelPositions(g, order, k, nodePositions) ==
  IF k > Len(order) THEN nodePositions
  ELSE CHOOSE r \in
         {LevelPositions(g, order, k + 1, set) :
            set \in {CacheSet(nodePositions, order[k].node.id,
                       [x |-> START_X + ASSUMPTION_WIDTH + HORIZONTAL_GAP
                                + (order[k].level - 1)
                                    * (OPERATION_SIZE + HORIZONTAL_GAP),
                        y |-> BracketY(g, nodePositions, order[k].node)])}} : TRUE

\* if (resultNode) nodePositions.set(resultNode.id, ...): the first result
\* node, placed by the source of the first edge into it
ResultPosition(g, nodeLevel, nodePositions) ==
  LET results == SelectSeq(g.nodes, LAMBDA node : node.type = "result")
      incoming == SelectSeq(g.edges, LAMBDA e : e.target = results[1].id)
  IN  IF results = <<>> THEN nodePositions
      ELSE CacheSet(nodePositions, results[1].id,
             [x |-> START_X + ASSUMPTION_WIDTH + HORIZONTAL_GAP
                      + maxLevel(nodeLevel) * (OPERATION_SIZE + HORIZONTAL_GAP),
              y |-> IF incoming = <<>> THEN Int2Num(START_Y)
                    ELSE CHOOSE y \in
                           {Sub(centre, half) :
                              centre \in {getNodeCenterY(g, nodePositions,
                                                         incoming[1].source)},
                              half \in {Half(RESULT_HEIGHT)}} : TRUE])

\* The positions layoutGraph computes from the levels
NodePositions(g, nodeLevel) ==
  CHOOSE r \in
    {ResultPosition(g, nodeLevel, placed) :
       placed \in {LevelPositions(g, order, 1, atLeft) :
                     order \in {NodesByLevel(g, nodeLevel, 1)},
                     atLeft \in {SourcePositions(g, 1, <<>>)}}} : TRUE

\* nodes.map((node) => pos ? {...node, position: pos} : node)
Positioned(g, nodePositions) ==
  [k \in 1..Len(g.nodes) |->
     IF g.nodes[k].id \in DOMAIN nodePositions
     THEN [g.nodes[k] EXCEPT !.position = nodePositions[g.nodes[k].id]]
     ELSE g.nodes[k]]

\* layoutGraph() is called: it returns when the graph has no node, and
\* else gives the source nodes the level 0
LayoutGraph ==
  /\ store.layout.pc = "idle"
  /\ store' =
       IF store.currentGraph.nodes = <<>>
       THEN [store EXCEPT !.layout.pc = "returned",
                          !.called = [op |-> "layoutGraph", id |-> 0]]
       ELSE [store EXCEPT !.layout.pc = "levelling",
                          !.layout.nodeLevel = SourceLevels(store.currentGraph),
                          !.called = [op |-> "layoutGraph", id |-> 0]]

\* One pass of while (changed)
LevelLoop ==
  /\ store.layout.pc = "levelling"
  /\ store.layout.passes < MaxPasses
  /\ \E pass \in {LevelPass(store.currentGraph, 1, store.layout.nodeLevel, FALSE)} :
       store' =
         [store EXCEPT
            !.layout =
               [pc |-> IF pass.changed THEN "levelling" ELSE "levelled",
                nodeLevel |-> pass.nodeLevel,
                passes |-> store.layout.passes + 1]]

\* The loop has ended: the positions are computed and set
LayoutPositions ==
  /\ store.layout.pc = "levelled"
  /\ \E nodePositions \in
          {NodePositions(store.currentGraph, store.layout.nodeLevel)} :
       store' =
         [store EXCEPT
            !.currentGraph.nodes = Positioned(store.currentGraph, nodePositions),
            !.layout.pc = "returned"]

LayoutNext ==
  \/ LayoutGraph /\ UNCHANGED <<graphVars, samplerVars, statsVars, simulation>>
  \/ LevelLoop /\ UNCHANGED <<graphVars, samplerVars, statsVars, simulation>>
  \/ LayoutPositions /\ UNCHANGED <<graphVars, samplerVars, statsVars, simulation>>

\* The graphs layoutGraph is called on
LayoutNode(id, type) == [id |-> id, type |-> type, position |-> [x |-> 0, y |-> Zero]]
LayoutEdge(source, target) ==
  [id |-> <<source, target>>, source |-> source, target |-> target,
   targetHandle |-> NoHandle]

\* x -> n1 -> n2 -> n3 -> result and c -> n2, the intermediate nodes of the
\* given types, listed from n1 on or from n3 on
ChainLayouts ==
  {[nodes |-> order
              \o <<LayoutNode("c", "constant"), LayoutNode("x", "assumption"),
                   LayoutNode("result", "result")>>,
    edges |-> <<LayoutEdge("x", "n1"), LayoutEdge("n1", "n2"),
                LayoutEdge("c", "n2"), LayoutEdge("n2", "n3"),
                LayoutEdge("n3", "result")>>] :
     order \in UNION {
       {<<LayoutNode("n1", t), LayoutNode("n2", u), LayoutNode("n3", "operation")>>,
        <<LayoutNode("n3", "operation"), LayoutNode("n2", u), LayoutNode("n1", t)>>} :
         t \in IntermediateTypes, u \in {"operation", "clamp"}}}

\* x and c into n1; x and n1 into n2; n2 -> result; a node n3 without edges
DiamondLayouts ==
  {[nodes |-> <<LayoutNode("x", "assumption"), LayoutNode("c", "constant"),
                LayoutNode("n2", t), LayoutNode("n1", "operation"),
                LayoutNode("n3", t), LayoutNode("result", "result")>>,
    edges |-> <<LayoutEdge("x", "n1"), LayoutEdge("c", "n1"),
                LayoutEdge("x", "n2"), LayoutEdge("n1", "n2"),
                LayoutEdge("n2", "result")>>] : t \in IntermediateTypes}

\* Cycles of edges that pass a result node, a constant node or an id no
\* node has: n1 -> through -> n1, and x -> n1 -> result
ThroughLayouts ==
  {[nodes |-> <<LayoutNode("x", "assumption"), LayoutNode("c", "constant"),
                LayoutNode("n1", t), LayoutNode("result", "result")>>,
    edges |-> <<LayoutEdge("x", "n1"), LayoutEdge("n1", "result"),
                LayoutEdge("n1", through), LayoutEdge(through, "n1")>>] :
     t \in IntermediateTypes, through \in {"result", "c", "ghost"}}

\* Cycles of intermediate nodes: a node that is its own input, two nodes
\* and three nodes in a ring, with and without an edge from x into the ring
\* and from the ring to the result node
CycleLayouts ==
  {[nodes |-> <<LayoutNode("x", "assumption"), LayoutNode("n1", t),
                LayoutNode("n2", u), LayoutNode("n3", "function"),
                LayoutNode("result", "result")>>,
    edges |-> ring \o entry \o <<LayoutEdge("n3", "result")>>] :
     t \in IntermediateTypes, u \in {"operation", "conditional"},
     ring \in {<<LayoutEdge("n1", "n1")>>,
               <<LayoutEdge("n1", "n2"), LayoutEdge("n2", "n1")>>,
               <<LayoutEdge("n1", "n2"), LayoutEdge("n2", "n3"),
                 LayoutEdge("n3", "n1")>>},
     entry \in {<<>>, <<LayoutEdge("x", "n1")>>}}

LayoutGraphs ==
  {createEmptyGraph,
   [nodes |-> <<LayoutNode("result", "result")>>, edges |-> <<>>]}
    \cup ChainLayouts \cup DiamondLayouts \cup ThroughLayouts \cup CycleLayouts

LayoutStart ==
  /\ GraphIdle /\ SamplerIdle /\ StatsIdle /\ SimulationIdle
  /\ \E g \in LayoutGraphs : store = [InitialStore EXCEPT !.currentGraph = g]

\* The call runs to its end or without end: a pass of the loop that can be
\* made is made
SpecLayout == LayoutStart /\ [][LayoutNext]_vars /\ WF_store(LayoutNext)

-----------------------------------------------------------------------------
(***************************************************************************)
(* Properties of runGraphSimulation (specification Spec)                   *)
(***************************************************************************)
\* The id of the result node the run evaluates
ResultId == FindResultNode(graph).id

\* The iteration cache the latest iteration ended with
IterationValues == lastIteration.vals

\* What an edge from sourceId supplied in the latest iteration: the value
\* cached for the node, 0 for an id no node of the graph has
InputValue(sourceId) ==
  IF HasNode(graph, sourceId) THEN IterationValues[sourceId] ELSE Zero

\* C1: within one iteration every node is computed at most once, an
\* assumption feeding several consumers is sampled once (its sampler makes
\* the calls of Math.random() of one sampling only), and a subtract node
\* both of whose operands come from the same assumption yields 0 in every
\* iteration.
C1SampledOnceDifferenceZero ==
  (pc # "idle" /\ lastIteration # NoIteration) =>
    /\ \A id \in DOMAIN lastIteration.computed : lastIteration.computed[id] <= 1
    /\ (graph \in {DiamondGraph(a) : a \in GraphAssumptions}
                 \cup {TwoPathsGraph(a) : a \in GraphAssumptions})
         => /\ lastIteration.computed["x"] = 1
            /\ IterationValues["op"] = Zero

\* C3: a binary operation node whose "a" edge supplies inputA and whose "b"
\* edge, if any, supplies inputB (0 when unwired) has the value 0 for a
\* divide with inputB = 0, and inputA * inputB, inputA + inputB,
\* inputA - inputB and inputA / inputB otherwise.
C3OperationExact ==
  \A k \in 1..Len(graph.nodes) :
    LET node == graph.nodes[k]
        incoming == IncomingEdges(graph, node.id)
        inputA == InputValue(incoming[1].sourceId)
        inputB == IF Len(incoming) = 2 THEN InputValue(incoming[2].sourceId)
                  ELSE Zero
    IN  ( /\ node.type = "operation"
          /\ node.operation \in BinaryOperations
          /\ node.id \in DOMAIN IterationValues
          /\ Len(incoming) \in 1..2
          /\ incoming[1].handle = "a"
          /\ Len(incoming) = 2 => incoming[2].handle = "b" )
        => IterationValues[node.id] =
             CASE node.operation = "multiply" -> Mul(inputA, inputB)
               [] node.operation = "add" -> Add(inputA, inputB)
               [] node.operation = "subtract" -> Sub(inputA, inputB)
               [] node.operation = "divide" ->
                    IF inputB = Zero THEN Zero ELSE Div(inputA, inputB)

\* C3 happens: a divide node with a non-zero left operand and no right
\* operand wired was evaluated to 0
C3DivideByUnwiredZero ==
  /\ pc # "idle"
  /\ "op" \in DOMAIN IterationValues
  /\ FindNode(graph, "op").operation = "divide"
  /\ Len(IncomingEdges(graph, "op")) = 1
  /\ IncomingEdges(graph, "op")[1].handle = "a"
  /\ InputValue(IncomingEdges(graph, "op")[1].sourceId) = Int2Num(3)
  /\ IterationValues["op"] = Zero

\* C4: an iteration appends to the samples of exactly the nodes it computed
\* with a finite value, each its own value, and leaves the samples of
\* every other node as they were.
C4FilteredPerNode ==
  [][(i' = i + 1) =>
       \A id \in NodeIds(graph) :
         nodeSamples'[id] =
           IF id \in DOMAIN lastIteration'.vals /\ IsFinite(lastIteration'.vals[id])
           THEN Append(nodeSamples[id], lastIteration'.vals[id])
           ELSE nodeSamples[id]]_vars

\* C4 happens: an iteration computed one node with a NaN value and another
\* with a finite one, and only the latter got its sample
C4MixedIteration ==
  /\ pc # "idle"
  /\ i = 1
  /\ \E a, b \in DOMAIN IterationValues :
       /\ IsNaN(IterationValues[a])
       /\ nodeSamples[a] = <<>>
       /\ IsFinite(IterationValues[b])
       /\ nodeSamples[b] = <<IterationValues[b]>>

\* C5: a run that ends with no valid result sample returns the all-zero
\* finalResult; an iteration whose result value is not finite adds no
\* result sample; without a result node nodeResults is empty and no node
\* was evaluated or sampled.
C5ZeroWithoutSamples ==
  /\ (pc = "done" /\ finalResult.samples = <<>>) => finalResult = ZeroResult
  /\ (pc # "idle" /\ HasResultNode(graph) /\ lastIteration # NoIteration
        /\ ~IsFinite(IterationValues[ResultId]))
       => Len(nodeSamples[ResultId]) < i
  /\ (pc = "done" /\ ~HasResultNode(graph))
       => /\ finalResult = ZeroResult
          /\ nodeResults = EmptyMap
          /\ lastIteration = NoIteration
          /\ \A id \in NodeIds(graph) : nodeSamples[id] = <<>>

\* C5 happens: a run with a result node returned after iterations all of
\* whose result values were not finite
C5AllIterationsNonFinite ==
  /\ pc = "done"
  /\ HasResultNode(graph)
  /\ iterations = MaxIterations
  /\ i = iterations
  /\ ~IsFinite(IterationValues[ResultId])
  /\ finalResult.samples = <<>>
  /\ finalResult.mean = Zero

\* C9: on Assumption(10, 10, uniform) -> multiply <- Constant(2) -> Result a
\* run of N >= 1 iterations returns N result samples, all 20, with mean 20,
\* stdDev 0 and the five percentiles 20.
C9EndToEnd ==
  (pc = "done" /\ graph = EndToEndGraph /\ iterations >= 1) =>
    /\ Len(finalResult.samples) = iterations
    /\ \A k \in 1..Len(finalResult.samples) : finalResult.samples[k] = Int2Num(20)
    /\ finalResult.mean = Int2Num(20)
    /\ finalResult.stdDev = Zero
    /\ \A p \in DOMAIN finalResult.percentiles :
         finalResult.percentiles[p] = Int2Num(20)

\* C9 happens: the run on that graph returned after MaxIterations iterations
C9EndToEndReturned ==
  /\ pc = "done"
  /\ graph = EndToEndGraph
  /\ iterations = MaxIterations
  /\ Len(finalResult.samples) = MaxIterations

\* C10: a min or max function node with exactly one wired input has the
\* value of that input.
C10SingleInputPassesThrough ==
  \A k \in 1..Len(graph.nodes) :
    LET node == graph.nodes[k]
        incoming == IncomingEdges(graph, node.id)
    IN  ( /\ node.type = "function"
          /\ node.function \in {"min", "max"}
          /\ node.id \in DOMAIN IterationValues
          /\ Len(incoming) = 1 )
        => IterationValues[node.id] = InputValue(incoming[1].sourceId)

\* C11: a clamp node both of whose bounds are defined, with min <= max, has
\* a value in [min, max], also when its input is unwired.
C11ClampWithinBounds ==
  \A k \in 1..Len(graph.nodes) :
    LET node == graph.nodes[k]
    IN  ( /\ node.type = "clamp"
          /\ node.id \in DOMAIN IterationValues
          /\ node.hasMin /\ node.hasMax
          /\ Le(node.min, node.max) )
        => /\ Le(node.min, IterationValues[node.id])
           /\ Le(IterationValues[node.id], node.max)

\* The value the latest iteration has for the source of the first incoming
\* edge tagged with a port name, 0 when no edge carries the tag
PortValue(incoming, port) ==
  IF \E k \in 1..Len(incoming) : incoming[k].handle = port
  THEN IterationValues[
         incoming[CHOOSE k \in 1..Len(incoming) : incoming[k].handle = port].sourceId]
  ELSE Zero

\* Whether the named comparison of two numbers holds
Compares(a, b, comparison) ==
  CASE comparison = "gt" -> Lt(b, a)
    [] comparison = "gte" -> Lt(b, a) \/ a = b
    [] comparison = "lt" -> Lt(a, b)
    [] comparison = "lte" -> Lt(a, b) \/ a = b
    [] comparison = "eq" -> a = b
    [] comparison = "neq" -> a # b

\* C12: a conditional node with at most one incoming edge per port name
\* has the value of its then port when the comparison of its a and b ports
\* holds and of its else port otherwise, a port being the value of the
\* source of the edge tagged with its name and 0 without such an edge; gt
\* with a = 5, b = 3, then = 100, else = 200 gives 100, and 200 with a = 2.
C12ConditionalSelects ==
  \A k \in 1..Len(graph.nodes) :
    LET node == graph.nodes[k]
        incoming == IncomingEdges(graph, node.id)
    IN  ( /\ node.type = "conditional"
          /\ node.id \in DOMAIN IterationValues )
        => /\ IterationValues[node.id] =
                IF Compares(PortValue(incoming, "a"), PortValue(incoming, "b"),
                            node.comparison)
                THEN PortValue(incoming, "then") ELSE PortValue(incoming, "else")
           /\ ( /\ node.comparison = "gt"
                /\ PortValue(incoming, "b") = Int2Num(3)
                /\ PortValue(incoming, "then") = Int2Num(100)
                /\ PortValue(incoming, "else") = Int2Num(200) )
              => /\ PortValue(incoming, "a") = Int2Num(5)
                      => IterationValues[node.id] = Int2Num(100)
                 /\ PortValue(incoming, "a") = Int2Num(2)
                      => IterationValues[node.id] = Int2Num(200)

\* C12 happens: a gt conditional whose a port has no tagged edge, an
\* untagged edge from the constant 5 notwithstanding, compared 0 with 3 and
\* took the else value
C12UntaggedPortDefaulted ==
  /\ pc # "idle"
  /\ "cond" \in DOMAIN IterationValues
  /\ FindNode(graph, "cond").comparison = "gt"
  /\ \E k \in 1..Len(IncomingEdges(graph, "cond")) :
        /\ IncomingEdges(graph, "cond")[k].handle = NoHandle
        /\ IncomingEdges(graph, "cond")[k].sourceId = "a"
  /\ IterationValues["a"] = Int2Num(5)
  /\ IterationValues["cond"] = Int2Num(200)

\* The fold of an operation over the values the latest iteration has for
\* the sources of the first n incoming edges
RECURSIVE FoldSources(_, _, _)
FoldSources(incoming, operation, n) ==
  IF n = 0 THEN (IF operation = "sum" THEN Zero ELSE One)
  ELSE IF operation = "sum"
       THEN Add(FoldSources(incoming, operation, n - 1),
                InputValue(incoming[n].sourceId))
       ELSE Mul(FoldSources(incoming, operation, n - 1),
                InputValue(incoming[n].sourceId))

\* C13: a sum node has the sum, and a product node the product, of the
\* values of the sources of all its incoming edges, one term per edge
\* whatever its tag; without incoming edges the sum is 0 and the product 1.
C13FoldsEveryEdge ==
  \A k \in 1..Len(graph.nodes) :
    LET node == graph.nodes[k]
        incoming == IncomingEdges(graph, node.id)
    IN  ( /\ node.type = "operation"
          /\ node.operation \in {"sum", "product"}
          /\ node.id \in DOMAIN IterationValues )
        => /\ IterationValues[node.id] =
                FoldSources(incoming, node.operation, Len(incoming))
           /\ Len(incoming) = 0
                => IterationValues[node.id] =
                     IF node.operation = "sum" THEN Zero ELSE One

\* C13 happens: a product node with three incoming edges, two of them from
\* the same source, was evaluated to 3 * 1/2 * 3
C13SourceCountedPerEdge ==
  /\ pc # "idle"
  /\ "op" \in DOMAIN IterationValues
  /\ FindNode(graph, "op").operation = "product"
  /\ Len(IncomingEdges(graph, "op")) = 3
  /\ HasNode(graph, "c1")
  /\ HasNode(graph, "c2")
  /\ IterationValues["c1"] = Int2Num(3)
  /\ IterationValues["c2"] = Rat(1, 2)
  /\ IterationValues["op"] = Rat(9, 2)

\* The value of a binary operation on a left and a right operand, a
\* division by 0 giving 0
BinaryValue(operation, left, right) ==
  CASE operation = "multiply" -> Mul(left, right)
    [] operation = "add" -> Add(left, right)
    [] operation = "subtract" -> Sub(left, right)
    [] operation = "divide" -> IF right = Zero THEN Zero ELSE Div(left, right)

\* C14: a binary operation node with two incoming edges, one tagged "a"
\* and the other tagged "b" or untagged, has the value of the operation on
\* the source of the "a" edge as left and the source of the other edge as
\* right operand, in either order of the two edges.
C14TaggedEdgeIsLeft ==
  \A k \in 1..Len(graph.nodes) :
    LET node == graph.nodes[k]
        incoming == IncomingEdges(graph, node.id)
    IN  ( /\ node.type = "operation"
          /\ node.operation \in BinaryOperations
          /\ node.id \in DOMAIN IterationValues
          /\ Len(incoming) = 2
          /\ \E j \in 1..2 : /\ incoming[j].handle = "a"
                              /\ incoming[3 - j].handle \in {"b", NoHandle} )
        => \A j \in 1..2 :
             incoming[j].handle = "a"
               => IterationValues[node.id] =
                    BinaryValue(node.operation,
                                InputValue(incoming[j].sourceId),
                                InputValue(incoming[3 - j].sourceId))

\* C15: a binary operation node with exactly two incoming edges, both
\* untagged, has the value of the operation on the source of the first
\* edge as operand A and the source of the second as operand B: first -
\* second for subtract, first / second for divide.
C15FirstUntaggedIsA ==
  \A k \in 1..Len(graph.nodes) :
    LET node == graph.nodes[k]
        incoming == IncomingEdges(graph, node.id)
    IN  ( /\ node.type = "operation"
          /\ node.operation \in BinaryOperations
          /\ node.id \in DOMAIN IterationValues
          /\ Len(incoming) = 2
          /\ incoming[1].handle = NoHandle
          /\ incoming[2].handle = NoHandle )
        => LET first == InputValue(incoming[1].sourceId)
               second == InputValue(incoming[2].sourceId)
           IN  /\ node.operation = "subtract"
                    => IterationValues[node.id] = Sub(first, second)
               /\ (node.operation = "divide" /\ second # Zero)
                    => IterationValues[node.id] = Div(first, second)
               /\ IterationValues[node.id] =
                    BinaryValue(node.operation, first, second)

\* C15 happens: a subtract node with two untagged edges, from -4 first and
\* from 3 second, was evaluated to -7
C15UntaggedDifference ==
  /\ pc # "idle"
  /\ "op" \in DOMAIN IterationValues
  /\ FindNode(graph, "op").operation = "subtract"
  /\ Len(IncomingEdges(graph, "op")) = 2
  /\ IncomingEdges(graph, "op")[1].handle = NoHandle
  /\ IncomingEdges(graph, "op")[2].handle = NoHandle
  /\ InputValue(IncomingEdges(graph, "op")[1].sourceId) = Int2Num(-4)
  /\ InputValue(IncomingEdges(graph, "op")[2].sourceId) = Int2Num(3)
  /\ IterationValues["op"] = Int2Num(-7)

\* The ids of the sources of the edges into a node: of all of them, or
\* (evaluated) of those whose source the evaluation of the node reads: all
\* for an operation, function or conditional node, the first for a clamp
\* or result node, none otherwise
SourcesOf(g, id, evaluated) ==
  LET into == {k \in 1..Len(g.edges) : g.edges[k].target = id}
      first == {k \in into : \A j \in into : k <= j}
      type == IF HasNode(g, id) THEN FindNode(g, id).type ELSE ""
  IN  {g.edges[k].source :
         k \in IF ~evaluated \/ type \in {"operation", "function", "conditional"}
               THEN into
               ELSE IF type \in {"clamp", "result"} THEN first ELSE {}}

\* The ids from which a node of ids is reached along such edges, ids included
RECURSIVE UpstreamOf(_, _, _)
UpstreamOf(g, ids, evaluated) ==
  LET more == ids \cup UNION {SourcesOf(g, id, evaluated) : id \in ids}
  IN  IF more = ids THEN ids ELSE UpstreamOf(g, more, evaluated)

\* Whether a directed cycle of such edges is upstream of the result node
CycleUpstream(g, evaluated) ==
  \E id \in UpstreamOf(g, {FindResultNode(g).id}, evaluated) :
    id \in UpstreamOf(g, SourcesOf(g, id, evaluated), evaluated)

\* C18 as stated: with a directed cycle of edges upstream of the result
\* node the first iteration never completes, so the run neither counts an
\* iteration nor returns; without one the run does not recurse without
\* bound and returns after exactly the requested number of iterations.
C18CycleNeverCompletes ==
  HasResultNode(graph) =>
    /\ (CycleUpstream(graph, FALSE) /\ iterations >= 1) => (i = 0 /\ pc # "done")
    /\ ~CycleUpstream(graph, FALSE)
         => (pc # "recursing" /\ (pc = "done" => i = iterations))

\* What C18 asks of a state, for the edges the evaluation reads
C18Safe ==
  HasResultNode(graph) =>
    /\ (CycleUpstream(graph, TRUE) /\ iterations >= 1) => (i = 0 /\ pc # "done")
    /\ (~CycleUpstream(graph, TRUE) \/ iterations = 0)
         => (pc # "recursing" /\ (pc = "done" => i = iterations))

\* C18, amended: the cycle must consist of edges the evaluation reads (every
\* edge into an operation, function or conditional node, the first edge
\* into a clamp or result node, no edge into an assumption or constant
\* node).  With such a cycle upstream of the result node and at least one
\* iteration requested, the run enters a recursion without end in its first
\* iteration and never returns; otherwise every iteration terminates and the
\* run returns after exactly the requested number of iterations.
C18EvaluatedCycleNeverCompletes ==
  /\ []C18Safe
  /\ (HasResultNode(graph) /\ CycleUpstream(graph, TRUE) /\ iterations >= 1)
       ~> (pc = "recursing")
  /\ (HasResultNode(graph) /\ ~(CycleUpstream(graph, TRUE) /\ iterations >= 1))
       ~> (pc = "done" /\ i = iterations)

\* C18 happens: the run of a graph whose sum node is its own input is in
\* the recursion without end of its first iteration
C18SelfInputRecursing ==
  /\ pc = "recursing"
  /\ i = 0
  /\ iterations = MaxIterations
  /\ \E k \in 1..Len(graph.edges) :
        graph.edges[k].source = "op" /\ graph.edges[k].target = "op"
  /\ IncomingEdges(graph, ResultId)[1].sourceId = "op"

\* The value sampleAssumption gives an assumption node on the random
\* outcomes of the latest iteration, read from the first on
SampledFromOwnDraws(node) ==
  sampleAssumption([id |-> node.id, min |-> node.min, max |-> node.max,
                    distribution |-> node.distribution],
                   [tape |-> lastIteration.draws, pos |-> 0]).v

\* C19: every value in the cache an iteration ended with was computed in
\* that iteration, once (the cache was empty when the iteration began), and
\* is determined by the node's attributes, the iteration's random outcomes
\* and the same cache's values of the node's predecessors: a constant is
\* its value attribute, an assumption (the only one of its graph) is
\* sampleAssumption on the outcomes the iteration drew, a result is the
\* cached value of the source of its first edge, or 0.
C19IterationStartsEmpty ==
  \A id \in DOMAIN lastIteration.vals :
    LET node == FindNode(graph, id)
        incoming == IncomingEdges(graph, id)
    IN  /\ lastIteration.computed[id] = 1
        /\ node.type = "constant" => lastIteration.vals[id] = node.value
        /\ node.type = "assumption"
             => /\ lastIteration.draws # <<>>
                /\ lastIteration.vals[id] = SampledFromOwnDraws(node)
        /\ node.type = "result"
             => lastIteration.vals[id] =
                  IF Len(incoming) > 0 THEN InputValue(incoming[1].sourceId)
                  ELSE Zero

\* C19 happens: the second iteration of a run sampled its assumption anew,
\* to another value than the first
C19SecondIterationResampled ==
  /\ i = 2
  /\ "x" \in DOMAIN nodeSamples
  /\ "x" \in DOMAIN lastIteration.vals
  /\ Len(nodeSamples["x"]) = 2
  /\ nodeSamples["x"][1] # nodeSamples["x"][2]
  /\ lastIteration.vals["x"] = nodeSamples["x"][2]
  /\ lastIteration.computed["x"] = 1

-----------------------------------------------------------------------------
(***************************************************************************)
(* Properties of sampleAssumption (specification SpecSampler)              *)
(***************************************************************************)
\* C2: for an assumption with min <= max, every distribution and every
\* outcome of the random source, sampleAssumption returns a number v with
\* min <= v <= max.
C2SampleInRange ==
  (sampled.returned /\ Le(assumption.min, assumption.max)) =>
    /\ IsFinite(sampled.v)
    /\ Le(assumption.min, sampled.v)
    /\ Le(sampled.v, assumption.max)

\* The normal deviate the k-th pass of the rejection loop of the returned
\* call drew: passes read the random outcomes two by two
DrawOfPass(k) ==
  BoxMuller(Div(Add(assumption.min, assumption.max), Int2Num(2)),
            Div(Sub(assumption.max, assumption.min), Int2Num(4)),
            sampled.tape[((2 * k - 2) % Len(sampled.tape)) + 1],
            sampled.tape[((2 * k - 1) % Len(sampled.tape)) + 1])

\* Whether a number is inside [min, max] of the assumption
InsideRange(v) == Le(assumption.min, v) /\ Le(v, assumption.max)

\* C20: a call of sampleNormal returns after 1 to 100 passes of its loop,
\* each drawing one normal deviate; no pass before the last drew a number
\* inside [min, max]; a loop that ended before the 100th pass ended on a
\* draw inside [min, max], which is returned; and after the 100th pass the
\* call returns the 100th draw clamped: Math.max(min, Math.min(max, draw)).
C20StopsAtFirstInside ==
  (sampled.returned /\ assumption.distribution = "normal") =>
    /\ sampled.attempts \in 1..MaxAttempts
    /\ sampled.calls = 2 * sampled.attempts
    /\ \A k \in 1..(sampled.attempts - 1) : ~InsideRange(DrawOfPass(k))
    /\ sampled.attempts < MaxAttempts
         => /\ InsideRange(DrawOfPass(sampled.attempts))
            /\ sampled.v = DrawOfPass(sampled.attempts)
    /\ sampled.attempts = MaxAttempts
         => sampled.v = MathMax(assumption.min,
                                MathMin(assumption.max, DrawOfPass(MaxAttempts)))

-----------------------------------------------------------------------------
(***************************************************************************)
(* Properties of calculateStats (specification SpecStats)                  *)
(***************************************************************************)
\* How many samples are below v, and how many are not above it
CountBelow(v) == Cardinality({j \in 1..Len(samples) : Lt(samples[j], v)})
CountUpTo(v) == Cardinality({j \in 1..Len(samples) : Le(samples[j], v)})

\* The nearest rank min(floor(p * n / 100), n - 1), counted from 0
NearestRank(p, n) == IF (p * n) \div 100 < n - 1 THEN (p * n) \div 100 ELSE n - 1

\* v is the element of rank k (from 0) of the samples in ascending order
HasRank(v, k) == CountBelow(v) <= k /\ k < CountUpTo(v)

\* C7: for a non-empty list of n samples each of p5, p25, p50, p75, p95 is
\* the element of rank min(floor(p * n / 100), n - 1) of the samples in
\* ascending order; for the samples 1..10, p50 is 6.
C7NearestRank ==
  (summary.returned /\ samples # <<>>) =>
    /\ HasRank(summary.stats.percentiles.p5, NearestRank(5, Len(samples)))
    /\ HasRank(summary.stats.percentiles.p25, NearestRank(25, Len(samples)))
    /\ HasRank(summary.stats.percentiles.p50, NearestRank(50, Len(samples)))
    /\ HasRank(summary.stats.percentiles.p75, NearestRank(75, Len(samples)))
    /\ HasRank(summary.stats.percentiles.p95, NearestRank(95, Len(samples)))
    /\ samples = OneToTen => summary.stats.percentiles.p50 = Int2Num(6)

\* C7 happens: the statistics of the samples 10, 9, ..., 1 were computed
C7TenSamplesSummarized ==
  /\ summary.returned
  /\ samples = TenToOne
  /\ summary.stats.percentiles.p50 = Int2Num(6)
  /\ summary.stats.percentiles.p95 = Int2Num(10)

\* The sum of the samples and the sum of their squares
RECURSIVE SumFrom(_, _)
SumFrom(xs, k) == IF k > Len(xs) THEN Zero ELSE Add(xs[k], SumFrom(xs, k + 1))
SquaresOf(xs) == [k \in 1..Len(xs) |-> Mul(xs[k], xs[k])]

-----------------------------------------------------------------------------
(***************************************************************************)
(* Properties of runSimulation (specification SpecSimulation)              *)
(***************************************************************************)
\* C6: runSimulation returns samples = [] with mean 0, stdDev 0 and the
\* five percentiles 0 whenever no valid sample remains: with iterations = 0
\* and when the formula evaluated to NaN in every iteration.
C6ZeroSummaryWithoutSamples ==
  (simulation.pc = "done" /\ simulation.samples = <<>>) =>
    /\ simulation.result.samples = <<>>
    /\ simulation.result.mean = Zero
    /\ simulation.result.stdDev = Zero
    /\ simulation.result.percentiles = ZeroPercentiles

-----------------------------------------------------------------------------
(***************************************************************************)
(* Properties of the graph store (specification SpecStore)                 *)
(***************************************************************************)
\* Whether a sequence holds an element
Holds(seq, x) == \E k \in 1..Len(seq) : seq[k] = x

\* Whether after is before without the elements dropped: the elements
\* kept, each as it was and in the order they had
IsRestOf(after, before, Dropped(_)) ==
  /\ \A k \in 1..Len(before) : ~Dropped(before[k]) => Holds(after, before[k])
  /\ \A k \in 1..Len(after) : Holds(before, after[k]) /\ ~Dropped(after[k])
  /\ Len(after) = Cardinality({k \in 1..Len(before) : ~Dropped(before[k])})
  /\ \A j, k \in 1..Len(after) :
        j < k => \E m, n \in 1..Len(before) :
                   m < n /\ before[m] = after[j] /\ before[n] = after[k]

\* C16: removeNode(id) removes the node with the id and every edge whose
\* source or target is the id and leaves every other node and every other
\* edge of the current graph as it was; afterwards no edge refers to id.
C16RemoveNodeCascades ==
  [][store'.called.op = "removeNode" =>
       LET id == store'.called.id
       IN  /\ IsRestOf(store'.currentGraph.nodes, store.currentGraph.nodes,
                       LAMBDA node : node.id = id)
           /\ IsRestOf(store'.currentGraph.edges, store.currentGraph.edges,
                       LAMBDA edge : edge.source = id \/ edge.target = id)
           /\ \A k \in 1..Len(store'.currentGraph.edges) :
                 /\ store'.currentGraph.edges[k].source # id
                 /\ store'.currentGraph.edges[k].target # id
           /\ \A k \in 1..Len(store'.currentGraph.nodes) :
                 store'.currentGraph.nodes[k].id # id]_vars

\* C16 happens: removeNode(1) has acted on a graph for which three ids were
\* issued and whose only node and edge left is the node 2
C16NodeAndEdgeRemoved ==
  /\ store.called = [op |-> "removeNode", id |-> 1]
  /\ store.uuids = 3
  /\ store.currentGraph.nodes = <<[id |-> 2, type |-> "result", value |-> "none"]>>
  /\ store.currentGraph.edges = <<>>

\* C25: after any sequence of actions of the store a simulationResult that
\* is not null was computed on the current graph: the nodes, their
\* attributes and the edges are those the graph had when the result was
\* set.
C25ResultIsOfCurrentGraph ==
  store.simulationResult # "null" => store.computedOn = store.currentGraph

-----------------------------------------------------------------------------
(***************************************************************************)
(* Properties of evaluateFormula in runSimulation (SpecSimulation)         *)
(***************************************************************************)
\* The formula a / (b)
QuotientFormula ==
  <<NameToken("a", 0), Punct("/"), Punct("("), NameToken("b", 0), Punct(")")>>

\* Whether the text of a formula cannot be an expression: it is empty, or it
\* ends with an operator or an opening parenthesis, or starts with a
\* closing one or with * (a leading / starts a regular expression literal)
Malformed(formula) ==
  \/ formula = <<>>
  \/ formula # <<>> /\ formula[Len(formula)].kind \in {"-", "*", "/", "("}
  \/ formula # <<>> /\ formula[1].kind \in {")", "*", "/"}

\* C17: what evaluateFormula returns in a pass of runSimulation is a finite
\* number or NaN, never an infinity and never an exception: NaN for a
\* malformed formula and for a division by zero; and the pass appends the
\* returned number to the samples if it is finite and leaves the samples
\* as they were if it is NaN.
C17FailureIsNaNAndDropped ==
  /\ [](simulation.i > 0 =>
          /\ IsNaN(simulation.evaluated) \/ simulation.evaluated.d > 0
          /\ Malformed(simulation.formula) => IsNaN(simulation.evaluated)
          /\ ( /\ simulation.formula = QuotientFormula
               /\ "b" \in DOMAIN simulation.values
               /\ simulation.values["b"] = Zero )
             => IsNaN(simulation.evaluated))
  /\ [][simulation'.i = simulation.i + 1 =>
          simulation'.samples =
            IF IsNaN(simulation'.evaluated) THEN simulation.samples
            ELSE Append(simulation.samples, simulation'.evaluated)]_vars

\* C17 happens: runSimulation returned without samples after two passes
\* that divided a non-zero a by the b of value 0
C17QuotientByZeroDropped ==
  /\ simulation.pc = "done"
  /\ simulation.i = 2
  /\ simulation.formula = QuotientFormula
  /\ "a" \in DOMAIN simulation.values /\ "b" \in DOMAIN simulation.values
  /\ simulation.values["a"] = Int2Num(-4)
  /\ simulation.values["b"] = Zero
  /\ IsNaN(simulation.evaluated)
  /\ simulation.samples = <<>>

\* C29: restoreVersion with the id of a stored version makes the current
\* graph a copy of the graph of that version, which saveVersion captured as
\* the JSON copy of the graph that was current then, and sets
\* simulationResult to null and nodeSimulationResults to empty; with an id
\* no version has it changes nothing.  No action on the current graph,
\* restoreVersion included, changes the list of versions, and saveVersion
\* leaves the versions it keeps as they were.
C29RestoreVersionCopiesSnapshot ==
  /\ [][store'.called.op = "restoreVersion" =>
          IF HasVersion(store, store'.called.id)
          THEN /\ store'.currentGraph.nodes =
                    FindVersion(store, store'.called.id).graph.nodes
               /\ store'.currentGraph.edges =
                    FindVersion(store, store'.called.id).graph.edges
               /\ store'.simulationResult = "null"
               /\ store'.nodeSimulationResults = "empty"
               /\ store'.versions = store.versions
               /\ store'.uuids = store.uuids
          ELSE store' = [store EXCEPT !.called = store'.called]]_vars
  /\ [][store'.called.op = "saveVersion" =>
          /\ store'.versions[1].graph = JsonClone(store.currentGraph)
          /\ store'.currentGraph = store.currentGraph
          /\ \A k \in 2..Len(store'.versions) :
               store'.versions[k] = store.versions[k - 1]]_vars
  /\ [][store'.called.op \notin {"saveVersion", "clearVersions"} =>
          store'.versions = store.versions]_vars

\* C29 happens: the empty graph was saved, a constant was added and the
\* graph saved again, and the older version restored: the current graph is
\* the empty graph of that version, both versions are as they were saved
\* and the store holds no simulation results
C29OlderVersionRestored ==
  /\ store.called = [op |-> "restoreVersion", id |-> 1]
  /\ Len(store.versions) = 2
  /\ store.versions[1].id = 3
  /\ store.versions[1].graph.nodes =
       <<[id |-> 2, type |-> "constant", value |-> "3"]>>
  /\ store.versions[1].simulationResult = "undefined"
  /\ store.versions[2] =
       [id |-> 1, graph |-> createEmptyGraph, simulationResult |-> "undefined"]
  /\ store.currentGraph = createEmptyGraph
  /\ store.simulationResult = "null"
  /\ store.nodeSimulationResults = "empty"

\* C28: the version list has at most 50 entries, newest first (the ids
\* are issued in rising order).  saveVersion puts the new version, a
\* snapshot of the current graph, at the front of the list it found, of
\* which it drops the last entry when it found 50; restoreVersion leaves
\* the list as it is.
C28VersionsNewestFirstAtMostCap ==
  /\ [](/\ Len(store.versions) <= VersionCap
        /\ \A j, k \in 1..Len(store.versions) :
             j < k => store.versions[j].id > store.versions[k].id)
  /\ [][store'.called.op = "saveVersion" =>
          /\ store'.versions # <<>>
          /\ store'.versions[1].id = store'.uuids
          /\ store'.versions[1].id \notin
               {store.versions[k].id : k \in 1..Len(store.versions)}
          /\ store'.versions[1].graph = JsonClone(store.currentGraph)
          /\ Tail(store'.versions) =
               IF Len(store.versions) = VersionCap
               THEN SubSeq(store.versions, 1, VersionCap - 1)
               ELSE store.versions]_vars
  /\ [][store'.called.op = "restoreVersion" =>
          store'.versions = store.versions]_vars

\* C28 happens: saveVersion was called for the 51st time, with 50 versions
\* stored; the list has the 50 newest and the first version saved is gone
C28OldestDropped ==
  /\ store.called.op = "saveVersion"
  /\ store.uuids = VersionCap + 1
  /\ Len(store.versions) = VersionCap
  /\ store.versions[1].id = VersionCap + 1
  /\ store.versions[VersionCap].id = 2

\* The ids of the intermediate nodes that are sources of edges into id
IntermediateInputs(g, id) ==
  {g.edges[k].source : k \in {j \in 1..Len(g.edges) : g.edges[j].target = id}}
    \cap {intermediateNodes(g)[k].id : k \in 1..Len(intermediateNodes(g))}

\* The intermediate nodes from which a path of edges through intermediate
\* nodes leads to one of ids
RECURSIVE IntermediateUpstream(_, _)
IntermediateUpstream(g, ids) ==
  LET more == ids \cup UNION {IntermediateInputs(g, id) : id \in ids}
  IN  IF more = ids THEN ids ELSE IntermediateUpstream(g, more)

\* The operation, function, conditional and clamp nodes have a directed
\* cycle
IntermediateCycle(g) ==
  \E k \in 1..Len(intermediateNodes(g)) :
    intermediateNodes(g)[k].id
      \in IntermediateUpstream(g, IntermediateInputs(g, intermediateNodes(g)[k].id))

\* 1 + the largest depth of the edge sources of an intermediate node, the
\* depth of every other id being 0 (no cycle of intermediate nodes)
RECURSIVE Depth(_, _)
Depth(g, id) ==
  IF \E k \in 1..Len(intermediateNodes(g)) : intermediateNodes(g)[k].id = id
  THEN 1 + Largest({0} \cup
             {Depth(g, g.edges[k].source) :
                k \in {j \in 1..Len(g.edges) : g.edges[j].target = id}})
  ELSE 0

\* The depth of a node, where the intermediate nodes have no cycle
DepthOf(g, id) == IF IntermediateCycle(g) THEN 0 ELSE Depth(g, id)

\* C30: when the operation, function, conditional and clamp nodes have no
\* directed cycle, layoutGraph returns, and the level loop has given every
\* such node the level 1 + the largest level of its edge sources, a source
\* that is no such node counting 0, which places the node in the column of
\* that level; when they have a directed cycle every pass of the loop
\* raises a level, and the loop does not end.
C30LevelsOrNoFixedPoint ==
  /\ [](~IntermediateCycle(store.currentGraph) =>
          <>(store.layout.pc = "returned"))
  /\ []((store.layout.pc \in {"levelled", "returned"}
           /\ store.currentGraph.nodes # <<>>) =>
          /\ ~IntermediateCycle(store.currentGraph)
          /\ \A k \in 1..Len(store.currentGraph.nodes) :
               LET node == store.currentGraph.nodes[k]
               IN  /\ node.type \in {"assumption", "constant"} =>
                         store.layout.nodeLevel[node.id] = 0
                   /\ node.type \in IntermediateTypes =>
                        /\ store.layout.nodeLevel[node.id] =
                             DepthOf(store.currentGraph, node.id)
                        /\ store.layout.nodeLevel[node.id] =
                             1 + MaxInputLevel(store.currentGraph,
                                               store.layout.nodeLevel, node.id)
                        /\ store.layout.pc = "returned" =>
                             node.position.x =
                               START_X + ASSUMPTION_WIDTH + HORIZONTAL_GAP
                                 + (DepthOf(store.currentGraph, node.id) - 1)
                                     * (OPERATION_SIZE + HORIZONTAL_GAP))
  /\ [](IntermediateCycle(store.currentGraph) =>
          /\ store.layout.pc \in {"idle", "levelling"}
          /\ store.layout.pc = "levelling" =>
               LevelPass(store.currentGraph, 1,
                         store.layout.nodeLevel, FALSE).changed)

\* C30 happens: layoutGraph returned on a chain of three intermediate nodes
\* listed from the last on, after four passes of the loop, with n3 at
\* level 3 in the third column
C30ChainLevelled ==
  /\ store.layout.pc = "returned"
  /\ store.layout.passes = 4
  /\ Len(store.currentGraph.nodes) = 6
  /\ store.currentGraph.nodes[1].id = "n3"
  /\ store.layout.nodeLevel["n3"] = 3
  /\ store.currentGraph.nodes[1].position.x = 710

-----------------------------------------------------------------------------
(***************************************************************************)
(* Properties of runGraphSimulation: unwired inputs, accumulators, order   *)
(* of the iterations, nodeResults and edges from unknown ids               *)
(***************************************************************************)
\* C21: unwired inputs never fail and default to 0.  A result node without
\* incoming edge has the value 0 in every iteration (and every iteration
\* stored that 0), a result node with incoming edges has the value of the
\* source of its first incoming edge, which the iteration computed, and a
\* binary operation node with at
\* most one incoming edge has the value of the operation with 0 in place of
\* every operand no edge supplies.
C21UnwiredInputsAreZero ==
  \A k \in 1..Len(graph.nodes) :
    LET node == graph.nodes[k]
        incoming == IncomingEdges(graph, node.id)
    IN  node.id \in DOMAIN IterationValues =>
          /\ (node.type = "result" /\ Len(incoming) = 0) =>
               /\ IterationValues[node.id] = Zero
               /\ Len(nodeSamples[node.id]) = i
               /\ \A j \in 1..i : nodeSamples[node.id][j] = Zero
          /\ ( /\ node.type = "result"
               /\ Len(incoming) > 0
               /\ HasNode(graph, incoming[1].sourceId) ) =>
               /\ incoming[1].sourceId \in DOMAIN IterationValues
               /\ IterationValues[node.id] = IterationValues[incoming[1].sourceId]
          /\ ( /\ node.type = "operation"
               /\ node.operation \in BinaryOperations
               /\ Len(incoming) = 0 ) =>
               IterationValues[node.id] = BinaryValue(node.operation, Zero, Zero)
          /\ ( /\ node.type = "operation"
               /\ node.operation \in BinaryOperations
               /\ Len(incoming) = 1
               /\ HasNode(graph, incoming[1].sourceId) ) =>
               /\ incoming[1].sourceId \in DOMAIN IterationValues
               /\ IterationValues[node.id] =
                 IF incoming[1].handle \in {"a", NoHandle}
                 THEN BinaryValue(node.operation,
                                  IterationValues[incoming[1].sourceId], Zero)
                 ELSE BinaryValue(node.operation, Zero,
                                  IterationValues[incoming[1].sourceId])

\* C21 happens: the run returned after two iterations on the graph of a
\* constant 3 and a result node without edges, the result node has the
\* samples 0 and 0 and the constant, never computed, has none
C21UnwiredResultIsZero ==
  /\ pc = "done"
  /\ i = 2
  /\ graph = [nodes |-> <<ConstantNode("c1", Int2Num(3)), ResultNode("result")>>,
              edges |-> <<>>]
  /\ IterationValues = [id \in {"result"} |-> Zero]
  /\ nodeSamples["result"] = <<Zero, Zero>>
  /\ nodeSamples["c1"] = <<>>

\* C22: the per-node sample lists are append-only.  After k completed
\* iterations the list of every node has at most k entries, no step changes
\* or removes an entry a list already has, and a step lengthens a list by
\* one entry exactly when it is an iteration that computed the node with a
\* finite value, and by none otherwise.
C22AccumulatorsAppendOnly ==
  /\ [](pc # "idle" =>
          /\ DOMAIN nodeSamples = NodeIds(graph)
          /\ \A id \in NodeIds(graph) : Len(nodeSamples[id]) <= i)
  /\ [][\A id \in NodeIds(graph) :
          /\ Len(nodeSamples'[id]) >= Len(nodeSamples[id])
          /\ SubSeq(nodeSamples'[id], 1, Len(nodeSamples[id])) = nodeSamples[id]
          /\ Len(nodeSamples'[id]) - Len(nodeSamples[id]) =
               IF /\ i' = i + 1
                  /\ id \in DOMAIN lastIteration'.vals
                  /\ IsFinite(lastIteration'.vals[id])
               THEN 1 ELSE 0]_vars

\* C22 happens: after two iterations an assumption node has the two
\* different samples of the two iterations, the second behind the first
C22SecondSampleBehindFirst ==
  /\ pc # "idle"
  /\ i = 2
  /\ \E id \in NodeIds(graph) :
       /\ FindNode(graph, id).type = "assumption"
       /\ Len(nodeSamples[id]) = 2
       /\ nodeSamples[id][1] # nodeSamples[id][2]
       /\ nodeSamples[id][2] = IterationValues[id]

\* The caches an iteration of the run on g can end with, one for each
\* tape it can draw
IterationOutcomes(g) ==
  {computeNodeValue(g, FindResultNode(g).id, FreshIteration(g, tape)).vals :
     tape \in IterationTapes}

\* The sample lists after the iterations that end with the caches
\* outcomes[1], outcomes[2], ... ran in this order
RECURSIVE SamplesOfRun(_, _)
SamplesOfRun(g, outcomes) ==
  IF outcomes = <<>> THEN InitialNodeSamples(g)
  ELSE StoreValues(SamplesOfRun(g, SubSeq(outcomes, 1, Len(outcomes) - 1)),
                   outcomes[Len(outcomes)])

IterationOrders(n) ==
  {f \in [1..n -> 1..n] : \A a, b \in 1..n : f[a] = f[b] => a = b}
Permuted(outcomes, f) == [k \in 1..Len(outcomes) |-> outcomes[f[k]]]

\* The lists of two shards, merged node by node
Merged(first, second) == [id \in DOMAIN first |-> first[id] \o second[id]]

SameMultiset(a, b) ==
  /\ Len(a) = Len(b)
  /\ \A k \in 1..Len(a) :
       Cardinality({j \in 1..Len(a) : a[j] = a[k]})
         = Cardinality({j \in 1..Len(b) : b[j] = a[k]})

\* Whether no running sum of calculateStats(list) was rounded
RECURSIVE SumUnrounded(_)
SumUnrounded(list) ==
  IF list = <<>> THEN TRUE
  ELSE /\ SumUnrounded(SubSeq(list, 1, Len(list) - 1))
       /\ SumOf(list)
            = Add(SumOf(SubSeq(list, 1, Len(list) - 1)), list[Len(list)])
RECURSIVE DeviationsUnrounded(_, _)
DeviationsUnrounded(list, mean) ==
  IF list = <<>> THEN TRUE
  ELSE /\ DeviationsUnrounded(SubSeq(list, 1, Len(list) - 1), mean)
       /\ SumSquaredDeviations(list, mean)
            = Add(SumSquaredDeviations(SubSeq(list, 1, Len(list) - 1), mean),
                  PowNat(Sub(list[Len(list)], mean), 2))
Unrounded(list) ==
  SumUnrounded(list) /\ DeviationsUnrounded(list, MeanOf(list))

\* Whether two runs give a node the same samples but for their order, and
\* the same statistics sa and sb; with exactOnly the mean and stdDev are
\* compared only where no sum was rounded
SameStatistics(a, b, sa, sb, exactOnly) ==
  /\ SameMultiset(a, b)
  /\ sa.percentiles = sb.percentiles
  /\ (exactOnly => (Len(a) = 0 \/ (Unrounded(a) /\ Unrounded(b)))) =>
       /\ sa.mean = sb.mean
       /\ sa.stdDev = sb.stdDev

SameOutcome(g, first, second, exactOnly) ==
  \A id \in NodeIds(g) :
    SameStatistics(first[id], second[id], calculateStats(first[id]),
                   calculateStats(second[id]), exactOnly)

\* The iterations in any other order give the outcome of the run in the
\* order of outcomes, whose sample lists are inOrder; and the lists of two
\* shards of the run, merged, are the lists of the run
AnyOrder(g, outcomes, inOrder, exactOnly) ==
  /\ \A f \in IterationOrders(Len(outcomes)) :
       SameOutcome(g, inOrder, SamplesOfRun(g, Permuted(outcomes, f)), exactOnly)
  /\ \A k \in 0..Len(outcomes) :
       Merged(SamplesOfRun(g, SubSeq(outcomes, 1, k)),
              SamplesOfRun(g, SubSeq(outcomes, k + 1, Len(outcomes)))) = inOrder

\* A run that returned ran i iterations, each on some tape
RanOnTapes(g, each) ==
  \E outcomes \in [1..i -> each] :
    /\ nodeSamples = SamplesOfRun(g, outcomes)
    /\ nodeResults = NodeStatistics(nodeSamples)

\* From a start state, for every assignment of tapes to the iterations
EveryOrder(g, each, exactOnly) ==
  \A outcomes \in [1..iterations -> each] :
    AnyOrder(g, outcomes, SamplesOfRun(g, outcomes), exactOnly)

OrderIndependent(exactOnly) ==
  /\ ( /\ pc = "done"
       /\ HasResultNode(graph)
       /\ ~Reenters(graph, FindResultNode(graph).id, {}) ) =>
       RanOnTapes(graph, IterationOutcomes(graph))
  /\ ( /\ pc = "run" /\ i = 0
       /\ HasResultNode(graph)
       /\ ~Reenters(graph, FindResultNode(graph).id, {}) ) =>
       EveryOrder(graph, IterationOutcomes(graph), exactOnly)

\* C23 as stated: for a fixed assignment of the random draws to the
\* iterations, the iterations run in any order, or in shards that are
\* merged, give every node the same multiset of samples and the same mean,
\* stdDev and percentiles.
C23SameStatisticsAnyOrder == OrderIndependent(FALSE)

\* C23, amended: for a fixed assignment of the random draws to the
\* iterations, the iterations run in any order, or in shards that are
\* merged, give every node the same multiset of samples and the same
\* percentiles, and the same mean and stdDev where no running sum of
\* calculateStats is rounded.
C23SameSamplesAnyOrder == OrderIndependent(TRUE)

\* C23 happens: the run returned after three iterations with the samples
\* 2^Precision, 1, 1 of the assumption x; the same three in the order
\* 1, 1, 2^Precision have the same percentiles and another mean
C23LargeSampleFirst ==
  /\ pc = "done"
  /\ i = 3
  /\ graph = WideGraph
  /\ nodeSamples["x"] = <<Int2Num(2^Precision), One, One>>
  /\ nodeResults["x"].stats = calculateStats(nodeSamples["x"])
  /\ calculateStats(<<One, One, Int2Num(2^Precision)>>).percentiles
       = nodeResults["x"].stats.percentiles
  /\ nodeResults["x"].stats.mean = Rat(2^Precision, 3)
  /\ calculateStats(<<One, One, Int2Num(2^Precision)>>).mean
       = Rat(2^Precision + 2, 3)

\* The nodes an iteration that ended with the cache values computed with a
\* finite value
FiniteIn(g, values) ==
  {id \in NodeIds(g) : id \in DOMAIN values /\ IsFinite(values[id])}

\* C26: the returned nodeResults has exactly the nodes of the graph that
\* some iteration of the run computed with a finite value: every key is
\* the id of a node of the graph, no key is a node that is not upstream of
\* the result node, and when the result node has samples its entry has the
\* samples of finalResult.
C26NodeResultsOfComputedNodes ==
  ( /\ pc = "done"
    /\ HasResultNode(graph)
    /\ ~Reenters(graph, ResultId, {}) ) =>
    /\ DOMAIN nodeResults \subseteq NodeIds(graph)
    /\ \E outcomes \in [1..i -> IterationOutcomes(graph)] :
         /\ nodeSamples = SamplesOfRun(graph, outcomes)
         /\ DOMAIN nodeResults =
              UNION {FiniteIn(graph, outcomes[k]) : k \in 1..i}
    /\ DOMAIN nodeResults \subseteq UpstreamOf(graph, {ResultId}, FALSE)
    /\ \A id \in DOMAIN nodeResults : nodeResults[id].nodeId = id
    /\ ResultId \in DOMAIN nodeResults =>
         /\ finalResult.samples # <<>>
         /\ nodeResults[ResultId].stats.samples = finalResult.samples

\* C26 happens: the run returned after two iterations on abs(x) -> result
\* with sqrt(x) on the unused input; g = sqrt(x) was NaN in one iteration
\* and finite in the other and is a key, as x, f and result are
C26FiniteOnceIsKey ==
  /\ pc = "done"
  /\ i = 2
  /\ graph = MixedGraph("abs")
  /\ Len(nodeSamples["g"]) = 1
  /\ DOMAIN nodeResults = {"x", "f", "g", "result"}
  /\ nodeResults["result"].stats.samples = finalResult.samples
  /\ Len(finalResult.samples) = 2

\* The ids that are the source of an edge and the id of no node
UnknownIds(g) == {g.edges[k].source : k \in 1..Len(g.edges)} \ NodeIds(g)

\* The graph with a constant node of value 0 for every unknown id
RECURSIVE WithZeroNodes(_, _)
WithZeroNodes(g, ids) ==
  IF ids = {} THEN g
  ELSE LET id == CHOOSE x \in ids : TRUE
       IN  WithZeroNodes([g EXCEPT !.nodes = Append(@, ConstantNode(id, Zero))],
                         ids \ {id})

\* The cache of the iteration that makes the draws of the latest iteration
\* on the graph g
CacheOn(g) ==
  computeNodeValue(g, FindResultNode(g).id,
    FreshIteration(g, IF lastIteration.draws = <<>> THEN <<Zero>>
                      ELSE lastIteration.draws)).vals

\* C27: an edge whose source id is the id of no node does not make the run
\* fail.  Every node has in every iteration the value it has with a
\* constant 0 in place of the missing node, nothing is cached and no
\* samples are kept under the unknown id, and the unknown id is no key of
\* nodeResults.
C27UnknownSourceIsZero ==
  (pc # "idle" /\ HasResultNode(graph) /\ ~Reenters(graph, ResultId, {})) =>
    /\ pc # "recursing"
    /\ DOMAIN IterationValues \subseteq NodeIds(graph)
    /\ DOMAIN nodeSamples = NodeIds(graph)
    /\ DOMAIN nodeResults \subseteq NodeIds(graph)
    /\ lastIteration # NoIteration =>
         \A id \in NodeIds(graph) :
           /\ id \in DOMAIN IterationValues
                <=> id \in DOMAIN CacheOn(WithZeroNodes(graph, UnknownIds(graph)))
           /\ id \in DOMAIN IterationValues =>
                IterationValues[id]
                  = CacheOn(WithZeroNodes(graph, UnknownIds(graph)))[id]

\* C27 happens: the run returned after two iterations on 3 - ghost, ghost
\* being the id of no node; op and result have the samples 3 and 3, and
\* only c1, op and result are cached and are keys of nodeResults
C27GhostOperandIsZero ==
  /\ pc = "done"
  /\ i = 2
  /\ UnknownIds(graph) = {"ghost"}
  /\ HasNode(graph, "op")
  /\ FindNode(graph, "op").operation = "subtract"
  /\ IncomingEdges(graph, "op")[2].sourceId = "ghost"
  /\ IncomingEdges(graph, "op")[2].handle = "b"
  /\ DOMAIN IterationValues = {"c1", "op", "result"}
  /\ nodeSamples["op"] = <<Int2Num(3), Int2Num(3)>>
  /\ nodeSamples["result"] = <<Int2Num(3), Int2Num(3)>>
  /\ DOMAIN nodeResults = {"c1", "op", "result"}

-----------------------------------------------------------------------------
(***************************************************************************)
(* Properties of the callers of runSimulation                              *)
(***************************************************************************)
\* C24: a caller that ran a simulation whose returned samples list is empty
\* does not store the result as the current simulation result, and it sets
\* an error for the user.
C24EmptyOutputNotStored ==
  (simulation.pc = "handled" /\ Len(simulation.result.samples) = 0) =>
    /\ simulation.stored = <<>>
    /\ simulation.error # "null"

=============================================================================
